---- MODULE Spec2Model ----
(***************************************************************************)
(* A model of bidi.js: getEmbeddingLevels (src/src/embeddingLevels.js),     *)
(* the resolver of the Unicode Bidirectional Algorithm, as a state machine. *)
(* The input string is a sequence of UTF-16 code units; every loop of the   *)
(* function is a step operator on the record of the function's variables.   *)
(* Arrays indexed by the code (charTypes, embedLevels, the index maps) are  *)
(* functions on 0..n-1, lists that the code pushes to are sequences.        *)
(***************************************************************************)
EXTENDS Integers, Sequences, FiniteSets, TLC

\* ---------------------------------------------------------------- bounds

\* Longest input string, in UTF-16 code units.
MaxLen == 4

\* ------------------------------------------------- character classes

TYPES ==
  {"L", "R", "EN", "ES", "ET", "AN", "CS", "B", "S", "WS", "ON", "BN", "NSM",
   "AL", "LRO", "RLO", "LRE", "RLE", "PDF", "LRI", "RLI", "FSI", "PDI"}

ISOLATE_INIT_TYPES == {"LRI", "RLI", "FSI"}

STRONG_TYPES == {"L", "R", "AL"}

NEUTRAL_ISOLATE_TYPES == {"B", "S", "WS", "ON", "FSI", "LRI", "RLI", "PDI"}

BN_LIKE_TYPES == {"BN", "RLE", "LRE", "RLO", "LRO", "PDF"}

TRAILING_TYPES == {"WS", "LRI", "RLI", "FSI", "PDI", "S", "B"}

FORMATTING_TYPES ==
  {"RLE", "LRE", "RLO", "LRO", "LRI", "RLI", "FSI", "PDI", "PDF", "B"}

MAX_DEPTH == 125

\* The most openers the bracket stack of BD16 holds.
MAX_OPENERS == 63

\* The key under which charTypeCounts counts the NEUTRAL_ISOLATE_TYPES union.
NI_KEY == "NEUTRAL_ISOLATE_TYPES"

\* ------------------------------------------------- strings and tables

\* Array.from(string) splits a string into code points: a high surrogate
\* followed by a low surrogate is one code point of two code units, any other
\* code unit (a lone surrogate too) is a code point of its own.
isHighSurrogate(u) == u >= 55296 /\ u <= 56319

isLowSurrogate(u) == u >= 56320 /\ u <= 57343

RECURSIVE arrayFromAt(_, _)
arrayFromAt(str, i) ==
  IF i > Len(str) THEN << >>
  ELSE IF i < Len(str) /\ isHighSurrogate(str[i]) /\ isLowSurrogate(str[i + 1])
       THEN << <<str[i], str[i + 1]>> >> \o arrayFromAt(str, i + 2)
       ELSE << <<str[i]>> >> \o arrayFromAt(str, i + 1)

arrayFrom(str) == arrayFromAt(str, 1)

\* A sequence as a 0-based array.
Arr(seq) == [i \in 0..(Len(seq) - 1) |-> seq[i + 1]]

\* char.codePointAt(0)
codePointAt0(char) ==
  IF Len(char) = 2
  THEN 65536 + (char[1] - 55296) * 1024 + (char[2] - 56320)
  ELSE char[1]

\* The bidi class of a character, from the Unicode character database.
getBidiCharType(char) ==
  LET cp == codePointAt0(char) IN
  CASE cp = 9 -> "S"
    [] cp = 32 -> "WS"
    [] cp \in {33, 40, 41, 91, 93, 9001, 9002, 12296, 12297} -> "ON"
    [] cp = 35 -> "ET"
    [] cp = 43 -> "ES"
    [] cp = 44 -> "CS"
    [] cp = 49 -> "EN"
    [] cp = 768 -> "NSM"
    [] cp = 1488 -> "R"
    [] cp = 1575 -> "AL"
    [] cp = 1632 -> "AN"
    [] cp = 8203 -> "BN"
    [] cp = 8233 -> "B"
    [] cp = 8234 -> "LRE"
    [] cp = 8235 -> "RLE"
    [] cp = 8236 -> "PDF"
    [] cp = 8237 -> "LRO"
    [] cp = 8238 -> "RLO"
    [] cp = 8294 -> "LRI"
    [] cp = 8295 -> "RLI"
    [] cp = 8296 -> "FSI"
    [] cp = 8297 -> "PDI"
    [] cp >= 67584 /\ cp <= 67647 -> "R"
    [] cp >= 120782 /\ cp <= 120831 -> "EN"
    [] cp >= 127744 /\ cp <= 128767 -> "ON"
    [] cp = 917505 -> "BN"
    [] OTHER -> "L"

\* brackets.js: null is modelled as << >>.
openingToClosingBracket(char) ==
  LET cp == IF char = << >> THEN 0 ELSE codePointAt0(char) IN
  CASE cp = 40 -> <<41>>
    [] cp = 91 -> <<93>>
    [] cp = 9001 -> <<9002>>
    [] cp = 12296 -> <<12297>>
    [] OTHER -> << >>

closingToOpeningBracket(char) ==
  LET cp == IF char = << >> THEN 0 ELSE codePointAt0(char) IN
  CASE cp = 41 -> <<40>>
    [] cp = 93 -> <<91>>
    [] cp = 9002 -> <<9001>>
    [] cp = 12297 -> <<12296>>
    [] OTHER -> << >>

getCanonicalBracket(char) ==
  LET cp == IF char = << >> THEN 0 ELSE codePointAt0(char) IN
  CASE cp = 9001 -> <<12296>>
    [] cp = 9002 -> <<12297>>
    [] OTHER -> << >>

\* ------------------------------------------------- the function's state

VARIABLES
  pc, string, baseDirection,
  codePoints, codePointIndexToCodeUnitIndex, codeUnitIndexToCodePointIndex,
  charTypes, charTypeCounts, embedLevels, isolationPairs,
  paragraphs, paraIdx, cpIdx,
  statusStack, overflowIsolateCount, overflowEmbeddingCount, validIsolateCount,
  levelRuns, runIdx, seqRuns, currentRun, pdiCpIdx,
  isolatingRunSeqs, seqIdx, finalLevels,
  start, end, indices, map

vars ==
  <<pc, string, baseDirection,
    codePoints, codePointIndexToCodeUnitIndex, codeUnitIndexToCodePointIndex,
    charTypes, charTypeCounts, embedLevels, isolationPairs,
    paragraphs, paraIdx, cpIdx,
    statusStack, overflowIsolateCount, overflowEmbeddingCount, validIsolateCount,
    levelRuns, runIdx, seqRuns, currentRun, pdiCpIdx,
    isolatingRunSeqs, seqIdx, finalLevels,
    start, end, indices, map>>

\* The variables as one record: every step is an operator from record to record.
State ==
  [pc |-> pc, string |-> string, baseDirection |-> baseDirection,
   codePoints |-> codePoints,
   codePointIndexToCodeUnitIndex |-> codePointIndexToCodeUnitIndex,
   codeUnitIndexToCodePointIndex |-> codeUnitIndexToCodePointIndex,
   charTypes |-> charTypes, charTypeCounts |-> charTypeCounts,
   embedLevels |-> embedLevels, isolationPairs |-> isolationPairs,
   paragraphs |-> paragraphs, paraIdx |-> paraIdx, cpIdx |-> cpIdx,
   statusStack |-> statusStack,
   overflowIsolateCount |-> overflowIsolateCount,
   overflowEmbeddingCount |-> overflowEmbeddingCount,
   validIsolateCount |-> validIsolateCount,
   levelRuns |-> levelRuns, runIdx |-> runIdx, seqRuns |-> seqRuns,
   currentRun |-> currentRun, pdiCpIdx |-> pdiCpIdx,
   isolatingRunSeqs |-> isolatingRunSeqs, seqIdx |-> seqIdx,
   finalLevels |-> finalLevels]

Apply(s) ==
  /\ pc' = s.pc
  /\ string' = s.string
  /\ baseDirection' = s.baseDirection
  /\ codePoints' = s.codePoints
  /\ codePointIndexToCodeUnitIndex' = s.codePointIndexToCodeUnitIndex
  /\ codeUnitIndexToCodePointIndex' = s.codeUnitIndexToCodePointIndex
  /\ charTypes' = s.charTypes
  /\ charTypeCounts' = s.charTypeCounts
  /\ embedLevels' = s.embedLevels
  /\ isolationPairs' = s.isolationPairs
  /\ paragraphs' = s.paragraphs
  /\ paraIdx' = s.paraIdx
  /\ cpIdx' = s.cpIdx
  /\ statusStack' = s.statusStack
  /\ overflowIsolateCount' = s.overflowIsolateCount
  /\ overflowEmbeddingCount' = s.overflowEmbeddingCount
  /\ validIsolateCount' = s.validIsolateCount
  /\ levelRuns' = s.levelRuns
  /\ runIdx' = s.runIdx
  /\ seqRuns' = s.seqRuns
  /\ currentRun' = s.currentRun
  /\ pdiCpIdx' = s.pdiCpIdx
  /\ isolatingRunSeqs' = s.isolatingRunSeqs
  /\ seqIdx' = s.seqIdx
  /\ finalLevels' = s.finalLevels
  /\ UNCHANGED <<start, end, indices, map>>

\* A value of the charTypeCounts map: a number, undefined (no entry) or NaN.
Num(n) == [k |-> "num", n |-> n]

Undefined == [k |-> "undefined", n |-> 0]

NaN == [k |-> "NaN", n |-> 0]

Truthy(v) == v.k = "num" /\ v.n # 0

\* No level run (currentRun before the first run is built).
NoRun ==
  [_start |-> 0, _end |-> -1, _level |-> 0, _startsWithPDI |-> FALSE,
   _endsWithIsolInit |-> FALSE]

\* The state at the entry of getEmbeddingLevels(str, dir).
Entry(str, dir) ==
  [pc |-> "scan", string |-> str, baseDirection |-> dir,
   codePoints |-> << >>,
   codePointIndexToCodeUnitIndex |-> << >>,
   codeUnitIndexToCodePointIndex |-> << >>,
   charTypes |-> << >>,
   charTypeCounts |-> [t \in TYPES \cup {NI_KEY} |-> Undefined],
   embedLevels |-> << >>,
   isolationPairs |-> << >>,
   paragraphs |-> << >>, paraIdx |-> 0, cpIdx |-> 0,
   statusStack |-> << >>,
   overflowIsolateCount |-> 0, overflowEmbeddingCount |-> 0,
   validIsolateCount |-> 0,
   levelRuns |-> << >>, runIdx |-> 0, seqRuns |-> << >>,
   currentRun |-> NoRun, pdiCpIdx |-> -1,
   isolatingRunSeqs |-> << >>, seqIdx |-> 0,
   finalLevels |-> << >>]

\* ------------------------------------------------- code point scan

RECURSIVE cuStarts(_, _, _)
cuStarts(cps, i, cu) ==
  IF i > Len(cps) THEN << >>
  ELSE <<cu>> \o cuStarts(cps, i + 1, cu + Len(cps[i]))

RECURSIVE cpOfUnits(_, _)
cpOfUnits(cps, i) ==
  IF i > Len(cps) THEN << >>
  ELSE [k \in 1..Len(cps[i]) |-> i - 1] \o cpOfUnits(cps, i + 1)

Scan(s) ==
  LET cps == arrayFrom(s.string)
      numCodePoints == Len(cps)
  IN [s EXCEPT
        !.pc = "P1",
        !.codePoints = Arr(cps),
        !.codePointIndexToCodeUnitIndex = Arr(cuStarts(cps, 1, 0)),
        !.codeUnitIndexToCodePointIndex = Arr(cpOfUnits(cps, 1)),
        !.charTypes = [i \in 0..(numCodePoints - 1) |-> getBidiCharType(cps[i + 1])],
        !.embedLevels = [i \in 0..(numCodePoints - 1) |-> 0],
        !.isolationPairs = [i \in 0..(Len(s.string) - 1) |-> -1]]

numCodePointsOf(s) == Cardinality(DOMAIN s.codePoints)

stringLengthOf(s) == Len(s.string)

\* ------------------------------------------------- P1-P3

\* 3.1.2 BD9, over the whole class array.
RECURSIVE indexOfMatchingPDILoop(_, _, _, _)
indexOfMatchingPDILoop(types, n, i, isolationLevel) ==
  IF i >= n THEN -1
  ELSE IF types[i] = "PDI"
       THEN IF isolationLevel - 1 = 0 THEN i
            ELSE indexOfMatchingPDILoop(types, n, i + 1, isolationLevel - 1)
       ELSE IF types[i] \in ISOLATE_INIT_TYPES
            THEN indexOfMatchingPDILoop(types, n, i + 1, isolationLevel + 1)
            ELSE indexOfMatchingPDILoop(types, n, i + 1, isolationLevel)

indexOfMatchingPDI(types, n, isolateStartCpIdx) ==
  indexOfMatchingPDILoop(types, n, isolateStartCpIdx + 1, 1)

\* 3.3.1 P2-P3
RECURSIVE determineAutoEmbedLevel(_, _, _, _)
determineAutoEmbedLevel(types, n, startCpIdx, isFSI) ==
  IF startCpIdx >= n THEN 0
  ELSE LET charType == types[startCpIdx] IN
       IF charType \in {"R", "AL"} THEN 1
       ELSE IF charType \in {"B", "L"} \/ (isFSI /\ charType = "PDI") THEN 0
       ELSE IF charType \in ISOLATE_INIT_TYPES
            THEN LET pdi == indexOfMatchingPDI(types, n, startCpIdx) IN
                 determineAutoEmbedLevel(types, n,
                   (IF pdi = -1 THEN n ELSE pdi) + 1, isFSI)
            ELSE determineAutoEmbedLevel(types, n, startCpIdx + 1, isFSI)

paragraphLevel(s, i) ==
  IF s.baseDirection = "rtl" THEN 1
  ELSE IF s.baseDirection = "ltr" THEN 0
  ELSE determineAutoEmbedLevel(s.charTypes, numCodePointsOf(s), i, FALSE)

\* The loop of P1. A paragraph is opened at the first code point and at each
\* code point that follows a B, where its level is determined; it is closed by
\* the next B, or left open to the end of the string.
paragraphStarts(s) ==
  {i \in 0..(numCodePointsOf(s) - 1) : i = 0 \/ s.charTypes[i - 1] = "B"}

\* A paragraph record with code point offsets in place of code unit offsets.
paragraphAtCodePoint(s, i) ==
  LET separators == {j \in i..(numCodePointsOf(s) - 1) : s.charTypes[j] = "B"}
  IN [start |-> i,
      end |-> IF separators = {} THEN numCodePointsOf(s) - 1
              ELSE CHOOSE j \in separators : \A k \in separators : j <= k,
      level |-> paragraphLevel(s, i)]

paragraphAt(s, i) ==
  LET separators == {j \in i..(numCodePointsOf(s) - 1) : s.charTypes[j] = "B"}
  IN [start |-> s.codePointIndexToCodeUnitIndex[i],
      end |-> IF separators = {} THEN stringLengthOf(s) - 1
              ELSE s.codePointIndexToCodeUnitIndex[
                     CHOOSE j \in separators : \A k \in separators : j <= k],
      level |-> paragraphLevel(s, i)]

splitLoop(s) ==
  LET starts == paragraphStarts(s) IN
  [p \in 1..Cardinality(starts) |->
     paragraphAt(s, CHOOSE i \in starts :
                      Cardinality({j \in starts : j < i}) = p - 1)]

SplitParagraphs(s) ==
  LET paras == splitLoop(s) IN
  [s EXCEPT !.paragraphs = paras,
            !.paraIdx = 0,
            !.pc = IF Len(paras) = 0 THEN "map" ELSE "paragraph"]

\* ------------------------------------------------- changeCharType

Sub1(v) == IF v.k = "num" THEN Num(v.n - 1) ELSE NaN

OrZero(v) == IF Truthy(v) THEN v.n ELSE 0

countUp(counts, type) ==
  LET c1 == [counts EXCEPT ![type] = Num(OrZero(counts[type]) + 1)] IN
  IF type \in NEUTRAL_ISOLATE_TYPES
  THEN [c1 EXCEPT ![NI_KEY] = Num(OrZero(c1[NI_KEY]) + 1)]
  ELSE c1

\* The count of the old class is left as it is.
countKept(counts, oldType) == counts

countDown(counts, oldType) ==
  LET c1 == [counts EXCEPT ![oldType] = Sub1(counts[oldType])] IN
  IF oldType \in NEUTRAL_ISOLATE_TYPES
  THEN [c1 EXCEPT ![NI_KEY] = Sub1(c1[NI_KEY])]
  ELSE c1

changeCharType(s, i, type) ==
  LET oldType == s.charTypes[i] IN
  [s EXCEPT !.charTypes[i] = type,
            !.charTypeCounts = countUp(countDown(s.charTypeCounts, oldType), type)]

\* ------------------------------------------------- per paragraph: X1-X8

paragraphOf(s) == s.paragraphs[s.paraIdx + 1]

paraStartCpIdx(s) == s.codeUnitIndexToCodePointIndex[paragraphOf(s).start]

paraEndCpIdx(s) == s.codeUnitIndexToCodePointIndex[paragraphOf(s).end]

nextEven(n) == n + (IF n % 2 = 1 THEN 1 ELSE 2)

\* Two levels up whatever the parity.
nextButOne(n) == n + 2

nextOdd(n) == n + (IF n % 2 = 1 THEN 2 ELSE 1)

BeginParagraph(s) ==
  [s EXCEPT
     !.pc = "explicit",
     !.statusStack = << [_level |-> paragraphOf(s).level, _override |-> "none",
                         _isolate |-> FALSE, _isolInitIndex |-> -1] >>,
     !.overflowIsolateCount = 0,
     !.overflowEmbeddingCount = 0,
     !.validIsolateCount = 0,
     !.charTypeCounts = [t \in TYPES \cup {NI_KEY} |-> Undefined],
     !.cpIdx = paraStartCpIdx(s)]

Top(stack) == stack[Len(stack)]

Pop(stack) == SubSeq(stack, 1, Len(stack) - 1)

\* The test without the limit on the depth.
pushAllowedAtAnyDepth(level, overflowIsolate, overflowEmbedding) ==
  overflowIsolate = 0 /\ overflowEmbedding = 0

\* The test of X2-X5c before a push.
pushAllowed(level, overflowIsolate, overflowEmbedding) ==
  level <= MAX_DEPTH /\ overflowIsolate = 0 /\ overflowEmbedding = 0

\* X2-X5: RLE, LRE, RLO, LRO
explicitEmbedding(s, charType) ==
  LET stackTop == Top(s.statusStack)
      level == IF charType \in {"RLE", "RLO"} THEN nextOdd(stackTop._level)
               ELSE nextEven(stackTop._level)
      s1 == [s EXCEPT !.embedLevels[s.cpIdx] = stackTop._level]
  IN IF pushAllowed(level, s.overflowIsolateCount, s.overflowEmbeddingCount)
     THEN [s1 EXCEPT !.statusStack = Append(s.statusStack,
             [_level |-> level,
              _override |-> IF charType = "RLO" THEN "R"
                            ELSE IF charType = "LRO" THEN "L" ELSE "none",
              _isolate |-> FALSE, _isolInitIndex |-> -1])]
     ELSE IF s.overflowIsolateCount = 0
          THEN [s1 EXCEPT !.overflowEmbeddingCount = s.overflowEmbeddingCount + 1]
          ELSE s1

\* An isolate frame is pushed without being counted in validIsolateCount.
isolateUncounted(s, charType0) ==
  LET stackTop == Top(s.statusStack) IN
  [s EXCEPT !.embedLevels[s.cpIdx] = stackTop._level,
            !.statusStack = Append(s.statusStack,
              [_level |-> nextOdd(stackTop._level), _override |-> "none",
               _isolate |-> TRUE, _isolInitIndex |-> s.cpIdx])]

\* X5a-X5c: RLI, LRI, FSI
explicitIsolate(s, charType0) ==
  LET stackTop == Top(s.statusStack)
      charType ==
        IF charType0 = "FSI"
        THEN IF determineAutoEmbedLevel(s.charTypes, numCodePointsOf(s),
                                        s.cpIdx + 1, TRUE) = 1
             THEN "RLI" ELSE "LRI"
        ELSE charType0
      s1 == [s EXCEPT !.embedLevels[s.cpIdx] = stackTop._level]
      s2 == IF stackTop._override # "none"
            THEN changeCharType(s1, s.cpIdx, stackTop._override) ELSE s1
      level == IF charType = "RLI" THEN nextOdd(stackTop._level)
               ELSE nextEven(stackTop._level)
  IN IF pushAllowed(level, s.overflowIsolateCount, s.overflowEmbeddingCount)
     THEN [s2 EXCEPT
             !.validIsolateCount = s.validIsolateCount + 1,
             !.statusStack = Append(s.statusStack,
               [_level |-> level, _override |-> "none", _isolate |-> TRUE,
                _isolInitIndex |-> s.cpIdx])]
     ELSE [s2 EXCEPT !.overflowIsolateCount = s.overflowIsolateCount + 1]

\* The topmost isolate frame is moved to the top, above the frames pushed
\* after it.
isolateToTop(stack) ==
  LET isolates == {k \in 1..Len(stack) : stack[k]._isolate} IN
  IF isolates = {} THEN << >>
  ELSE LET k == CHOOSE k \in isolates : \A j \in isolates : j <= k
       IN SubSeq(stack, 1, k - 1) \o SubSeq(stack, k + 1, Len(stack)) \o <<stack[k]>>

\* while (!statusStack[statusStack.length - 1]._isolate) statusStack.pop()
\* An empty stack has no top: reading its _isolate throws.
RECURSIVE popToIsolate(_)
popToIsolate(stack) ==
  IF Len(stack) = 0 THEN stack
  ELSE IF Top(stack)._isolate THEN stack
  ELSE popToIsolate(Pop(stack))

\* Every PDI is counted as an overflow and gets the level of the top frame.
countedPDI(s) ==
  [s EXCEPT !.overflowIsolateCount = s.overflowIsolateCount + 1,
            !.embedLevels[s.cpIdx] = Top(s.statusStack)._level]

\* X6a: PDI
explicitPDI(s) ==
  LET matched == s.overflowIsolateCount = 0 /\ s.validIsolateCount > 0
      popped == popToIsolate(s.statusStack)
      isolInitCpIdx == Top(popped)._isolInitIndex
      isolInitCodeUnitIndex == s.codePointIndexToCodeUnitIndex[isolInitCpIdx]
      pdiCodeUnitIndex == s.codePointIndexToCodeUnitIndex[s.cpIdx]
      s1 ==
        IF s.overflowIsolateCount > 0
        THEN [s EXCEPT !.overflowIsolateCount = s.overflowIsolateCount - 1]
        ELSE IF s.validIsolateCount > 0
        THEN [s EXCEPT
                !.overflowEmbeddingCount = 0,
                !.isolationPairs =
                   [[s.isolationPairs EXCEPT ![isolInitCodeUnitIndex] = pdiCodeUnitIndex]
                      EXCEPT ![pdiCodeUnitIndex] = isolInitCodeUnitIndex],
                !.statusStack = Pop(popped),
                !.validIsolateCount = s.validIsolateCount - 1]
        ELSE s
  IN IF matched /\ Len(popped) = 0 THEN [s EXCEPT !.pc = "threw"]
     ELSE LET stackTop == Top(s1.statusStack)
              s2 == [s1 EXCEPT !.embedLevels[s.cpIdx] = stackTop._level]
          IN IF stackTop._override # "none"
             THEN changeCharType(s2, s.cpIdx, stackTop._override) ELSE s2

\* A PDF that does not look at overflowIsolateCount.
pdfIgnoringIsolates(s) ==
  LET s1 == IF s.overflowEmbeddingCount > 0
            THEN [s EXCEPT !.overflowEmbeddingCount = s.overflowEmbeddingCount - 1]
            ELSE IF ~ Top(s.statusStack)._isolate /\ Len(s.statusStack) > 1
                 THEN [s EXCEPT !.statusStack = Pop(s.statusStack)]
                 ELSE s
  IN [s1 EXCEPT !.embedLevels[s.cpIdx] = Top(s1.statusStack)._level]

\* X7: PDF
explicitPDF(s) ==
  LET stackTop == Top(s.statusStack)
      s1 ==
        IF s.overflowIsolateCount = 0
        THEN IF s.overflowEmbeddingCount > 0
             THEN [s EXCEPT !.overflowEmbeddingCount = s.overflowEmbeddingCount - 1]
             ELSE IF ~stackTop._isolate /\ Len(s.statusStack) > 1
                  THEN [s EXCEPT !.statusStack = Pop(s.statusStack)]
                  ELSE s
        ELSE s
  IN [s1 EXCEPT !.embedLevels[s.cpIdx] = Top(s1.statusStack)._level]

\* The character gets the level of the top frame and keeps its class.
levelOfTopOnly(s, charType) ==
  [s EXCEPT !.embedLevels[s.cpIdx] = Top(s.statusStack)._level]

\* X6: every other character
explicitOther(s, charType) ==
  LET stackTop == Top(s.statusStack)
      s1 == [s EXCEPT !.embedLevels[s.cpIdx] = stackTop._level]
  IN IF stackTop._override # "none" /\ charType # "BN"
     THEN changeCharType(s1, s.cpIdx, stackTop._override) ELSE s1

\* One iteration of the loop of X1-X8 over the code points of the paragraph.
ExplicitStep(s) ==
  LET charType == s.charTypes[s.cpIdx]
      s0 == [s EXCEPT !.charTypeCounts = countUp(s.charTypeCounts, charType)]
      s1 == IF charType \in FORMATTING_TYPES
            THEN IF charType \in {"RLE", "LRE", "RLO", "LRO"}
                 THEN explicitEmbedding(s0, charType)
                 ELSE IF charType \in ISOLATE_INIT_TYPES
                 THEN explicitIsolate(s0, charType)
                 ELSE IF charType = "PDI" THEN explicitPDI(s0)
                 ELSE IF charType = "PDF" THEN explicitPDF(s0)
                 ELSE [s0 EXCEPT !.embedLevels[s.cpIdx] = paragraphOf(s).level]
            ELSE explicitOther(s0, charType)
  IN IF s1.pc = "threw" THEN s1
     ELSE IF s.cpIdx < paraEndCpIdx(s)
     THEN [s1 EXCEPT !.cpIdx = s.cpIdx + 1]
     ELSE [s1 EXCEPT !.pc = "runs"]

\* ------------------------------------------------- X10: level runs

\* The loop that builds levelRuns: currentRun is the last run pushed.
RECURSIVE levelRunsLoop(_, _, _)
levelRunsLoop(s, i, runs) ==
  IF i > paraEndCpIdx(s) THEN runs
  ELSE
    LET charType == s.charTypes[i]
        lvl == s.embedLevels[i]
        isIsolInit == charType \in ISOLATE_INIT_TYPES
        isPDI == charType = "PDI"
    IN IF charType = "BN" THEN levelRunsLoop(s, i + 1, runs)
       ELSE IF Len(runs) > 0 /\ lvl = runs[Len(runs)]._level
       THEN levelRunsLoop(s, i + 1,
              [runs EXCEPT ![Len(runs)]._end = i,
                           ![Len(runs)]._endsWithIsolInit = isIsolInit])
       ELSE levelRunsLoop(s, i + 1,
              Append(runs, [_start |-> i, _end |-> i, _level |-> lvl,
                            _startsWithPDI |-> isPDI,
                            _endsWithIsolInit |-> isIsolInit]))

BuildLevelRuns(s) ==
  LET runs == levelRunsLoop(s, paraStartCpIdx(s), << >>) IN
  [s EXCEPT !.levelRuns = runs,
            !.currentRun = IF Len(runs) = 0 THEN NoRun ELSE runs[Len(runs)],
            !.isolatingRunSeqs = << >>,
            !.runIdx = 0,
            !.pc = "seqStart"]

\* ------------------------------------------------- BD13: isolating run sequences

\* isolationPairs.has(key) and isolationPairs.get(key); -1 is undefined.
pairsHas(s, key) == s.isolationPairs[key] # -1

pairsGet(s, key) == s.isolationPairs[key]

\* Whether a run starts an isolating run sequence.
startsSequence(s, run) ==
  ~run._startsWithPDI \/ (run._startsWithPDI /\ ~pairsHas(s, run._start))

\* The head of the loop over levelRuns, up to the first run of a sequence.
SeqStart(s) ==
  IF s.runIdx >= Len(s.levelRuns)
  THEN IF Len(s.isolatingRunSeqs) > 0
       THEN [s EXCEPT !.pc = "W1", !.seqIdx = 0]
       ELSE [s EXCEPT !.pc = "implicit", !.cpIdx = paraStartCpIdx(s)]
  ELSE LET run == s.levelRuns[s.runIdx + 1] IN
       IF startsSequence(s, run)
       THEN [s EXCEPT !.seqRuns = <<run>>, !.currentRun = run,
                      !.pdiCpIdx = -1, !.pc = "chainTest"]
       ELSE [s EXCEPT !.runIdx = s.runIdx + 1]

\* The condition of the loop that chains the runs of a sequence.
chainCondition(s) ==
  s.currentRun._endsWithIsolInit /\ pairsGet(s, s.currentRun._end) # -1

ChainTest(s) ==
  IF chainCondition(s)
  THEN [s EXCEPT !.pdiCpIdx = pairsGet(s, s.currentRun._end), !.pc = "chainSearch"]
  ELSE [s EXCEPT !.pc = "seqEnd"]

\* The runs after runIdx that start at pdiCpIdx (0-based positions in levelRuns).
chainCandidates(s) ==
  {i \in (s.runIdx + 1)..(Len(s.levelRuns) - 1) :
     s.levelRuns[i + 1]._start = s.pdiCpIdx}

Min(S) == CHOOSE x \in S : \A y \in S : x <= y

\* The body of the chaining loop: the inner search for the run of the PDI.
ChainSearch(s) ==
  LET found == chainCandidates(s) IN
  IF found = {} THEN [s EXCEPT !.pc = "chainTest"]
  ELSE LET run == s.levelRuns[Min(found) + 1] IN
       [s EXCEPT !.seqRuns = Append(s.seqRuns, run), !.currentRun = run,
                 !.pc = "chainTest"]

RECURSIVE flattenRuns(_, _)
flattenRuns(runs, i) ==
  IF i > Len(runs) THEN << >>
  ELSE [k \in 1..(runs[i]._end - runs[i]._start + 1) |-> runs[i]._start + k - 1]
         \o flattenRuns(runs, i + 1)

\* The level of the nearest character that is not BN-like, walking from i by
\* step dir while inside [lo, hi]; dflt when there is none.
RECURSIVE adjacentLevel(_, _, _, _, _, _)
adjacentLevel(s, i, dir, lo, hi, dflt) ==
  IF i < lo \/ i > hi THEN dflt
  ELSE IF s.charTypes[i] \notin BN_LIKE_TYPES THEN s.embedLevels[i]
  ELSE adjacentLevel(s, i + dir, dir, lo, hi, dflt)

Max(a, b) == IF a >= b THEN a ELSE b

\* The record pushed to isolatingRunSeqs for the runs of seqRuns.
isolatingRunSeq(s) ==
  LET seqIndices == flattenRuns(s.seqRuns, 1)
      firstLevel == s.embedLevels[seqIndices[1]]
      prevLevel == adjacentLevel(s, seqIndices[1] - 1, -1, paraStartCpIdx(s),
                                 paraEndCpIdx(s), paragraphOf(s).level)
      lastCpIdx == seqIndices[Len(seqIndices)]
      lastLevel == s.embedLevels[lastCpIdx]
      nextLevel ==
        IF s.charTypes[lastCpIdx] \notin ISOLATE_INIT_TYPES
        THEN adjacentLevel(s, lastCpIdx + 1, 1, paraStartCpIdx(s),
                           paraEndCpIdx(s), paragraphOf(s).level)
        ELSE paragraphOf(s).level
  IN [_seqIndices |-> seqIndices,
      _sosType |-> IF Max(prevLevel, firstLevel) % 2 = 1 THEN "R" ELSE "L",
      _eosType |-> IF Max(nextLevel, lastLevel) % 2 = 1 THEN "R" ELSE "L"]

SeqEnd(s) ==
  [s EXCEPT !.isolatingRunSeqs = Append(s.isolatingRunSeqs, isolatingRunSeq(s)),
            !.seqRuns = << >>,
            !.pdiCpIdx = -1,
            !.runIdx = s.runIdx + 1,
            !.pc = "seqStart"]

\* ------------------------------------------------- W1-W7

\* The isolating run sequence being resolved, and its parts. The code's sequence
\* indices si are 0-based.
seqOf(s) == s.isolatingRunSeqs[s.seqIdx + 1]

seqLen(s) == Len(seqOf(s)._seqIndices)

cpAt(s, si) == seqOf(s)._seqIndices[si + 1]

typeAt(s, si) == s.charTypes[cpAt(s, si)]

counted(s, type) == Truthy(s.charTypeCounts[type])

\* Walking back from sj: the class of the first character that is not BN-like,
\* dflt when there is none.
RECURSIVE prevNonBN(_, _, _)
prevNonBN(s, sj, dflt) ==
  IF sj < 0 THEN dflt
  ELSE IF typeAt(s, sj) \notin BN_LIKE_TYPES THEN typeAt(s, sj)
  ELSE prevNonBN(s, sj - 1, dflt)

RECURSIVE w1Loop(_, _)
w1Loop(s, si) ==
  IF si >= seqLen(s) THEN s
  ELSE IF typeAt(s, si) = "NSM"
       THEN LET prevType == prevNonBN(s, si - 1, seqOf(s)._sosType) IN
            w1Loop(changeCharType(s, cpAt(s, si),
                     IF prevType \in ISOLATE_INIT_TYPES \cup {"PDI"}
                     THEN "ON" ELSE prevType),
                   si + 1)
       ELSE w1Loop(s, si + 1)

W1(s) ==
  [(IF counted(s, "NSM") THEN w1Loop(s, 0) ELSE s) EXCEPT !.pc = "W2"]

\* The class of the character at sj, the sos class at -1.
prevAdjacent(s, sj) ==
  IF sj < 0 THEN seqOf(s)._sosType ELSE typeAt(s, sj)

\* Walking back from sj to -1 (sos): the first strong class.
RECURSIVE prevStrong(_, _)
prevStrong(s, sj) ==
  IF sj < 0 THEN seqOf(s)._sosType
  ELSE IF typeAt(s, sj) \in STRONG_TYPES THEN typeAt(s, sj)
  ELSE prevStrong(s, sj - 1)

RECURSIVE w2Loop(_, _)
w2Loop(s, si) ==
  IF si >= seqLen(s) THEN s
  ELSE IF typeAt(s, si) = "EN" /\ prevStrong(s, si - 1) = "AL"
       THEN w2Loop(changeCharType(s, cpAt(s, si), "AN"), si + 1)
       ELSE w2Loop(s, si + 1)

W2(s) ==
  [(IF counted(s, "EN") THEN w2Loop(s, 0) ELSE s) EXCEPT !.pc = "W3"]

RECURSIVE w3Loop(_, _)
w3Loop(s, si) ==
  IF si >= seqLen(s) THEN s
  ELSE IF typeAt(s, si) = "AL"
       THEN w3Loop(changeCharType(s, cpAt(s, si), "R"), si + 1)
       ELSE w3Loop(s, si + 1)

W3(s) ==
  [(IF counted(s, "AL") THEN w3Loop(s, 0) ELSE s) EXCEPT !.pc = "W4"]

\* The scans of W4: the class where the walk from sj by step dir stops, at the
\* first character that is not BN-like or at the end of the sequence.
RECURSIVE w4Scan(_, _, _)
w4Scan(s, sj, dir) ==
  IF typeAt(s, sj) \notin BN_LIKE_TYPES THEN typeAt(s, sj)
  ELSE IF sj + dir < 0 \/ sj + dir >= seqLen(s) THEN typeAt(s, sj)
  ELSE w4Scan(s, sj + dir, dir)

RECURSIVE w4Loop(_, _)
w4Loop(s, si) ==
  IF si >= seqLen(s) - 1 THEN s
  ELSE IF typeAt(s, si) \in {"ES", "CS"}
       THEN LET prevType == w4Scan(s, si - 1, -1)
                nextType == w4Scan(s, si + 1, 1)
            IN IF prevType = nextType
                  /\ (IF typeAt(s, si) = "ES" THEN prevType = "EN"
                      ELSE prevType \in {"EN", "AN"})
               THEN w4Loop(changeCharType(s, cpAt(s, si), prevType), si + 1)
               ELSE w4Loop(s, si + 1)
       ELSE w4Loop(s, si + 1)

W4(s) ==
  [(IF counted(s, "ES") \/ counted(s, "CS") THEN w4Loop(s, 1) ELSE s)
     EXCEPT !.pc = "W5"]

\* for (sj = from; sj >= 0 && (type & mask); sj--) changeCharType(sj, to)
RECURSIVE changeBack(_, _, _, _)
changeBack(s, sj, mask, to) ==
  IF sj >= 0 /\ typeAt(s, sj) \in mask
  THEN changeBack(changeCharType(s, cpAt(s, sj), to), sj - 1, mask, to)
  ELSE s

\* The forward scan of W5; the result carries the index where the scan stopped.
RECURSIVE w5Forward(_, _)
w5Forward(s, si) ==
  IF si < seqLen(s) /\ typeAt(s, si) \in ({"ET", "EN"} \cup BN_LIKE_TYPES)
  THEN w5Forward(IF typeAt(s, si) # "EN"
                 THEN changeCharType(s, cpAt(s, si), "EN") ELSE s,
                 si + 1)
  ELSE [st |-> s, si |-> si]

RECURSIVE w5Loop(_, _)
w5Loop(s, si) ==
  IF si >= seqLen(s) THEN s
  ELSE IF typeAt(s, si) = "EN"
       THEN LET back == changeBack(s, si - 1, {"ET"} \cup BN_LIKE_TYPES, "EN")
                fwd == w5Forward(back, si + 1)
            IN w5Loop(fwd.st, fwd.si + 1)
       ELSE w5Loop(s, si + 1)

W5(s) ==
  [(IF counted(s, "EN") THEN w5Loop(s, 0) ELSE s) EXCEPT !.pc = "W6"]

\* for (sj = from; sj < length && (type & mask); sj++) changeCharType(sj, to)
RECURSIVE changeForward(_, _, _, _)
changeForward(s, sj, mask, to) ==
  IF sj < seqLen(s) /\ typeAt(s, sj) \in mask
  THEN changeForward(changeCharType(s, cpAt(s, sj), to), sj + 1, mask, to)
  ELSE s

RECURSIVE w6Loop(_, _)
w6Loop(s, si) ==
  IF si >= seqLen(s) THEN s
  ELSE IF typeAt(s, si) \in {"ET", "ES", "CS"}
       THEN w6Loop(changeForward(
                     changeBack(changeCharType(s, cpAt(s, si), "ON"),
                                si - 1, BN_LIKE_TYPES, "ON"),
                     si + 1, BN_LIKE_TYPES, "ON"),
                   si + 1)
       ELSE w6Loop(s, si + 1)

W6(s) ==
  [(IF counted(s, "ET") \/ counted(s, "ES") \/ counted(s, "CS")
    THEN w6Loop(s, 0) ELSE s) EXCEPT !.pc = "W7"]

RECURSIVE w7Loop(_, _, _)
w7Loop(s, si, prevStrongType) ==
  IF si >= seqLen(s) THEN s
  ELSE LET type == typeAt(s, si) IN
       IF type = "EN"
       THEN w7Loop(IF prevStrongType = "L"
                   THEN changeCharType(s, cpAt(s, si), "L") ELSE s,
                   si + 1, prevStrongType)
       ELSE IF type \in STRONG_TYPES THEN w7Loop(s, si + 1, type)
       ELSE w7Loop(s, si + 1, prevStrongType)

W7(s) ==
  [(IF counted(s, "EN") THEN w7Loop(s, 0, seqOf(s)._sosType) ELSE s)
     EXCEPT !.pc = "N0"]

\* ------------------------------------------------- N0

R_TYPES_FOR_N_STEPS == {"R", "EN", "AN"}

STRONG_TYPES_FOR_N_STEPS == {"R", "EN", "AN", "L"}

embedDirection(s) ==
  IF s.embedLevels[cpAt(s, 0)] % 2 = 1 THEN "R" ELSE "L"

lrOf(type) == IF type \in R_TYPES_FOR_N_STEPS THEN "R" ELSE "L"

\* Whether the opener stackChar pairs with the closing bracket char.
bracketsMatch(stackChar, char) ==
  \/ stackChar = closingToOpeningBracket(char)
  \/ stackChar = closingToOpeningBracket(getCanonicalBracket(char))
  \/ openingToClosingBracket(getCanonicalBracket(stackChar)) = char

\* The topmost opener of the stack that pairs with char: its position in the
\* stack (1-based), 0 when there is none.
RECURSIVE matchingOpener(_, _, _)
matchingOpener(openerStack, stackIdx, char) ==
  IF stackIdx < 1 THEN 0
  ELSE IF bracketsMatch(openerStack[stackIdx].char, char) THEN stackIdx
  ELSE matchingOpener(openerStack, stackIdx - 1, char)

\* BD16: one iteration of the loop over the sequence that identifies the
\* bracket pairs; _break records that the loop was left at a full stack.
bracketStep(s, si, loop) ==
  LET char == s.codePoints[cpAt(s, si)]
      m == matchingOpener(loop._openerStack, Len(loop._openerStack), char)
  IN IF typeAt(s, si) \notin NEUTRAL_ISOLATE_TYPES THEN loop
     ELSE IF openingToClosingBracket(char) # << >>
     THEN IF Len(loop._openerStack) < MAX_OPENERS
          THEN [loop EXCEPT !._openerStack =
                              Append(@, [char |-> char, seqIndex |-> si])]
          ELSE [loop EXCEPT !._break = TRUE]
     ELSE IF closingToOpeningBracket(char) # << >> /\ m # 0
     THEN [loop EXCEPT !._openerStack = SubSeq(@, 1, m - 1),
                       !._pairs = Append(@, <<loop._openerStack[m].seqIndex, si>>)]
     ELSE loop

\* The loop of BD16 from place si on: the opener stack and the pairs when it
\* ends, at the end of the sequence or at the break.
RECURSIVE bracketPairsLoop(_, _, _)
bracketPairsLoop(s, si, loop) ==
  IF si >= seqLen(s) \/ loop._break THEN loop
  ELSE bracketPairsLoop(s, si + 1, bracketStep(s, si, loop))

\* The pairs in the order in which the loop found them.
unsortedPairs(pairs, i) == pairs

\* bracketPairs.sort((a, b) => a[0] - b[0])
RECURSIVE insertPair(_, _)
insertPair(sorted, pair) ==
  IF Len(sorted) = 0 THEN <<pair>>
  ELSE IF sorted[Len(sorted)][1] <= pair[1] THEN Append(sorted, pair)
  ELSE Append(insertPair(SubSeq(sorted, 1, Len(sorted) - 1), pair),
              sorted[Len(sorted)])

RECURSIVE sortPairs(_, _)
sortPairs(pairs, i) ==
  IF i > Len(pairs) THEN << >>
  ELSE insertPair(sortPairs(pairs, i + 1), pairs[Len(pairs) - i + 1])

bracketPairs(s) ==
  sortPairs(bracketPairsLoop(s, 0, [_openerStack |-> << >>, _pairs |-> << >>,
                                    _break |-> FALSE])._pairs, 1)

\* N0 b: the strong class found between the brackets, as
\* <<foundStrongType, useStrongType>>; "none" is the code's 0.
RECURSIVE insidePair(_, _, _, _)
insidePair(s, si, closeSeqIdx, found) ==
  IF si >= closeSeqIdx THEN <<found, "none">>
  ELSE IF typeAt(s, si) \in STRONG_TYPES_FOR_N_STEPS
       THEN IF lrOf(typeAt(s, si)) = embedDirection(s)
            THEN <<TRUE, embedDirection(s)>>
            ELSE insidePair(s, si + 1, closeSeqIdx, TRUE)
       ELSE insidePair(s, si + 1, closeSeqIdx, found)

\* The sos class whatever comes before the opening bracket.
sosBeforePair(s, si) == seqOf(s)._sosType

\* N0 c: the strong class before the opening bracket, sos when there is none.
RECURSIVE beforePair(_, _)
beforePair(s, si) ==
  IF si < 0 THEN seqOf(s)._sosType
  ELSE IF typeAt(s, si) \in STRONG_TYPES_FOR_N_STEPS
       THEN IF lrOf(typeAt(s, si)) # embedDirection(s)
            THEN lrOf(typeAt(s, si)) ELSE embedDirection(s)
       ELSE beforePair(s, si - 1)

\* The class N0 gives the pair, "none" when it leaves the pair alone.
useStrongTypeOf(s, openSeqIdx, closeSeqIdx) ==
  LET inside == insidePair(s, openSeqIdx + 1, closeSeqIdx, FALSE) IN
  IF inside[1] /\ inside[2] = "none" THEN beforePair(s, openSeqIdx - 1)
  ELSE inside[2]

\* The character after a bracket that N0 set: the first one that is not
\* BN-like takes the class of the bracket when its original class is NSM.
RECURSIVE nsmAfter(_, _, _)
nsmAfter(s, si, useStrongType) ==
  IF si >= seqLen(s) THEN s
  ELSE IF typeAt(s, si) \notin BN_LIKE_TYPES
       THEN IF getBidiCharType(s.codePoints[cpAt(s, si)]) = "NSM"
            THEN changeCharType(s, cpAt(s, si), useStrongType)
            ELSE s
       ELSE nsmAfter(s, si + 1, useStrongType)

resolvePair(s, pair) ==
  LET openSeqIdx == pair[1]
      closeSeqIdx == pair[2]
      useStrongType == useStrongTypeOf(s, openSeqIdx, closeSeqIdx)
  IN IF useStrongType = "none" THEN s
     ELSE LET s1 == changeCharType(
                      changeCharType(s, cpAt(s, openSeqIdx), useStrongType),
                      cpAt(s, closeSeqIdx), useStrongType)
          IN IF useStrongType # embedDirection(s)
             THEN nsmAfter(nsmAfter(s1, openSeqIdx + 1, useStrongType),
                           closeSeqIdx + 1, useStrongType)
             ELSE s1

RECURSIVE resolvePairs(_, _, _)
resolvePairs(s, pairs, pairIdx) ==
  IF pairIdx > Len(pairs) THEN s
  ELSE resolvePairs(resolvePair(s, pairs[pairIdx]), pairs, pairIdx + 1)

\* After the last rule of a sequence: the next sequence, or I1-I2.
nextSequence(s) ==
  IF s.seqIdx + 1 < Len(s.isolatingRunSeqs)
  THEN [s EXCEPT !.seqIdx = s.seqIdx + 1, !.pc = "W1"]
  ELSE [s EXCEPT !.cpIdx = paraStartCpIdx(s), !.pc = "implicit"]

N0(s) ==
  IF counted(s, NI_KEY)
  THEN [resolvePairs(s, bracketPairs(s), 1) EXCEPT !.pc = "N1"]
  ELSE nextSequence(s)

\* ------------------------------------------------- N1-N2

\* Walking back from si2 over BN-like characters: <<niRunStartSi, prevStrongRunSi>>.
RECURSIVE niBack(_, _, _)
niBack(s, si2, niRunStartSi) ==
  IF si2 < 0 THEN <<niRunStartSi, -1>>
  ELSE IF typeAt(s, si2) \in BN_LIKE_TYPES THEN niBack(s, si2 - 1, si2)
  ELSE <<niRunStartSi, si2>>

\* Walking forward from si2 over neutrals and BN-like characters:
\* <<niRunEndSi, nextStrongRunSi>>.
RECURSIVE niForward(_, _, _)
niForward(s, si2, niRunEndSi) ==
  IF si2 >= seqLen(s) THEN <<niRunEndSi, -1>>
  ELSE IF typeAt(s, si2) \in (NEUTRAL_ISOLATE_TYPES \cup BN_LIKE_TYPES)
       THEN niForward(s, si2 + 1, si2)
  ELSE <<niRunEndSi, si2>>

RECURSIVE changeRange(_, _, _, _)
changeRange(s, sj, last, type) ==
  IF sj > last \/ sj >= seqLen(s) THEN s
  ELSE changeRange(changeCharType(s, cpAt(s, sj), type), sj + 1, last, type)

RECURSIVE n1Loop(_, _)
n1Loop(s, si) ==
  IF si >= seqLen(s) THEN s
  ELSE IF typeAt(s, si) \in NEUTRAL_ISOLATE_TYPES
       THEN LET back == niBack(s, si - 1, si)
                fwd == niForward(s, si + 1, si)
                prevType == IF back[2] = -1 THEN seqOf(s)._sosType
                            ELSE lrOf(typeAt(s, back[2]))
                nextType == IF fwd[2] = -1 THEN seqOf(s)._eosType
                            ELSE lrOf(typeAt(s, fwd[2]))
                resolvedType == IF prevType = nextType THEN prevType
                                ELSE embedDirection(s)
            IN n1Loop(changeRange(s, back[1], fwd[1], resolvedType), fwd[1] + 1)
       ELSE n1Loop(s, si + 1)

N1(s) == nextSequence(n1Loop(s, 0))

\* ------------------------------------------------- I1-I2, rule 5.2, L1

\* A write to a Uint8Array.
U8(n) == n % 256

\* Every class but L goes up one level at any level.
raiseAtAnyLevel(level, type) == IF type = "L" THEN 0 ELSE 1

\* I1 and I2: what the class adds to the level.
implicitRaise(level, type) ==
  IF level % 2 = 1
  THEN IF type \in {"L", "EN", "AN"} THEN 1 ELSE 0
  ELSE IF type = "R" THEN 1
       ELSE IF type \in {"AN", "EN"} THEN 2 ELSE 0

\* Rule 5.2: the class that takes the level of the preceding character.
takesPrecedingLevel(type) == type \in BN_LIKE_TYPES

\* The class as resolution has rewritten it, in place of the original class.
rewrittenType(s, i) == s.charTypes[i]

originalType(s, i) == getBidiCharType(s.codePoints[i])

\* L1: whether the character at i resets the levels before it.
resetsLevels(s, i) ==
  i = paraEndCpIdx(s) \/ originalType(s, i) \in {"S", "B"}

\* L1: the walk back from j over the trailing characters.
RECURSIVE resetTrailing(_, _, _)
resetTrailing(s, levels, j) ==
  IF j < paraStartCpIdx(s) THEN levels
  ELSE IF originalType(s, j) \in TRAILING_TYPES
       THEN resetTrailing(s, [levels EXCEPT ![j] = U8(paragraphOf(s).level)], j - 1)
       ELSE levels

\* After the last code point of a paragraph: the next paragraph, or the end.
nextParagraph(s) ==
  IF s.paraIdx + 1 < Len(s.paragraphs)
  THEN [s EXCEPT !.paraIdx = s.paraIdx + 1, !.pc = "paragraph"]
  ELSE [s EXCEPT !.pc = "map"]

\* One iteration of the last loop over the code points of the paragraph.
ImplicitStep(s) ==
  LET i == s.cpIdx
      level == s.embedLevels[i]
      type == s.charTypes[i]
      l1 == [s.embedLevels EXCEPT ![i] = U8(level + implicitRaise(level, type))]
      l2 == IF takesPrecedingLevel(type)
            THEN [l1 EXCEPT ![i] = IF i = paraStartCpIdx(s)
                                   THEN U8(paragraphOf(s).level) ELSE l1[i - 1]]
            ELSE l1
      l3 == IF resetsLevels(s, i) THEN resetTrailing(s, l2, i) ELSE l2
      s1 == [s EXCEPT !.embedLevels = l3]
  IN IF i < paraEndCpIdx(s) THEN [s1 EXCEPT !.cpIdx = i + 1]
     ELSE nextParagraph(s1)

\* ------------------------------------------------- levels per code unit

\* The first code unit of code point i only.
firstUnitOf(s, i) == {s.codePointIndexToCodeUnitIndex[i]}

\* The code units that the level of code point i is written to.
unitsOf(s, i) ==
  LET codeUnitIndex == s.codePointIndexToCodeUnitIndex[i] IN
  IF Len(s.codePoints[i]) = 2 THEN {codeUnitIndex, codeUnitIndex + 1}
  ELSE {codeUnitIndex}

RECURSIVE mapLoop(_, _, _)
mapLoop(s, i, levels) ==
  IF i >= numCodePointsOf(s) \/ DOMAIN levels = {} THEN levels
  ELSE mapLoop(s, i + 1,
         [u \in DOMAIN levels |->
            IF u \in unitsOf(s, i) THEN s.embedLevels[i] ELSE levels[u]])

MapLevels(s) ==
  [s EXCEPT !.finalLevels =
              mapLoop(s, 0, [u \in 0..(stringLengthOf(s) - 1) |-> 0]),
            !.pc = "done"]

\* ------------------------------------------------- the function as a whole

Step(s) ==
  CASE s.pc = "scan" -> Scan(s)
    [] s.pc = "P1" -> SplitParagraphs(s)
    [] s.pc = "paragraph" -> BeginParagraph(s)
    [] s.pc = "explicit" -> ExplicitStep(s)
    [] s.pc = "runs" -> BuildLevelRuns(s)
    [] s.pc = "seqStart" -> SeqStart(s)
    [] s.pc = "chainTest" -> ChainTest(s)
    [] s.pc = "chainSearch" -> ChainSearch(s)
    [] s.pc = "seqEnd" -> SeqEnd(s)
    [] s.pc = "W1" -> W1(s)
    [] s.pc = "W2" -> W2(s)
    [] s.pc = "W3" -> W3(s)
    [] s.pc = "W4" -> W4(s)
    [] s.pc = "W5" -> W5(s)
    [] s.pc = "W6" -> W6(s)
    [] s.pc = "W7" -> W7(s)
    [] s.pc = "N0" -> N0(s)
    [] s.pc = "N1" -> N1(s)
    [] s.pc = "implicit" -> ImplicitStep(s)
    [] s.pc = "map" -> MapLevels(s)
    [] OTHER -> s

\* More steps than a call that returns takes on a string of that length.
stepBound(str) == 24 * Len(str) + 8

RECURSIVE runFrom(_, _)
runFrom(s, fuel) ==
  IF s.pc \in {"done", "threw"} \/ fuel = 0 THEN s
  ELSE runFrom(Step(s), fuel - 1)

\* getEmbeddingLevels(str, dir): the state the call ends in; pc is "done" when
\* it returns {levels: finalLevels, paragraphs}.
getEmbeddingLevels(str, dir) == runFrom(Entry(str, dir), stepBound(str))

\* ------------------------------------------------- actions

DoScan == pc = "scan" /\ Apply(Scan(State))

DoSplitParagraphs == pc = "P1" /\ Apply(SplitParagraphs(State))

DoBeginParagraph == pc = "paragraph" /\ Apply(BeginParagraph(State))

DoExplicitStep == pc = "explicit" /\ Apply(ExplicitStep(State))

DoBuildLevelRuns == pc = "runs" /\ Apply(BuildLevelRuns(State))

DoSeqStart == pc = "seqStart" /\ Apply(SeqStart(State))

DoChainTest == pc = "chainTest" /\ Apply(ChainTest(State))

DoChainSearch == pc = "chainSearch" /\ Apply(ChainSearch(State))

DoSeqEnd == pc = "seqEnd" /\ Apply(SeqEnd(State))

DoW1 == pc = "W1" /\ Apply(W1(State))

DoW2 == pc = "W2" /\ Apply(W2(State))

DoW3 == pc = "W3" /\ Apply(W3(State))

DoW4 == pc = "W4" /\ Apply(W4(State))

DoW5 == pc = "W5" /\ Apply(W5(State))

DoW6 == pc = "W6" /\ Apply(W6(State))

DoW7 == pc = "W7" /\ Apply(W7(State))

DoN0 == pc = "N0" /\ Apply(N0(State))

DoN1 == pc = "N1" /\ Apply(N1(State))

DoImplicitStep == pc = "implicit" /\ Apply(ImplicitStep(State))

DoMapLevels == pc = "map" /\ Apply(MapLevels(State))

Next ==
  \/ DoScan
  \/ DoSplitParagraphs
  \/ DoBeginParagraph
  \/ DoExplicitStep
  \/ DoBuildLevelRuns
  \/ DoSeqStart
  \/ DoChainTest
  \/ DoChainSearch
  \/ DoSeqEnd
  \/ DoW1
  \/ DoW2
  \/ DoW3
  \/ DoW4
  \/ DoW5
  \/ DoW6
  \/ DoW7
  \/ DoN0
  \/ DoN1
  \/ DoImplicitStep
  \/ DoMapLevels

\* ------------------------------------------------- reordering and mirroring

\* start == null ? 0 : +start, clamped below by 0.
clampStart(from) == IF from = Undefined THEN 0 ELSE Max(0, from.n)

\* end == null ? strLen - 1 : +end, clamped above by strLen - 1.
clampEnd(strLen, to) ==
  IF to = Undefined THEN strLen - 1
  ELSE IF to.n <= strLen - 1 THEN to.n ELSE strLen - 1

\* Every position of a run of levels >= lvl holds the entry of the run's first
\* position.
fillRuns(ind, levels, a, b, lvl) ==
  [i \in DOMAIN ind |->
     IF i \in a..b /\ levels[i] >= lvl
     THEN ind[CHOOSE f \in a..i :
                /\ \A k \in f..i : levels[k] >= lvl
                /\ f = a \/ levels[f - 1] < lvl]
     ELSE ind[i]]

\* Reverse every maximal contiguous run of levels >= lvl of the line a..b:
\* position i of the run runFirst..runLast takes the entry of its mirror image.
reverseRuns(ind, levels, a, b, lvl) ==
  [i \in DOMAIN ind |->
     IF i \in a..b /\ levels[i] >= lvl
     THEN LET runFirst == CHOOSE f \in a..i :
                            /\ \A k \in f..i : levels[k] >= lvl
                            /\ f = a \/ levels[f - 1] < lvl
              runLast == CHOOSE l \in i..b :
                           /\ \A k \in i..l : levels[k] >= lvl
                           /\ l = b \/ levels[l + 1] < lvl
          IN ind[runFirst + runLast - i]
     ELSE ind[i]]

\* The levels from lvl down to base + 1, in that order.
RECURSIVE reverseFrom(_, _, _, _, _, _)
reverseFrom(ind, levels, a, b, lvl, base) ==
  IF lvl <= base THEN ind
  ELSE reverseFrom(reverseRuns(ind, levels, a, b, lvl), levels, a, b,
                   lvl - 1, base)

\* The part of the slice lo..hi that lies in one paragraph is one line; its
\* runs are reversed from its maximum level down to the paragraph level + 1.
reorderLine(ind, levels, paragraph, lo, hi) ==
  LET a == Max(lo, paragraph.start)
      b == IF hi <= paragraph.end THEN hi ELSE paragraph.end
      maxLevel == CHOOSE m \in {levels[k] : k \in a..b} :
                    \A k \in a..b : levels[k] <= m
  IN IF a > b THEN ind
     ELSE reverseFrom(ind, levels, a, b, maxLevel, paragraph.level)

RECURSIVE reorderParagraphs(_, _, _, _, _, _)
reorderParagraphs(ind, levels, paras, p, lo, hi) ==
  IF p > Len(paras) THEN ind
  ELSE reorderParagraphs(reorderLine(ind, levels, paras[p], lo, hi),
                         levels, paras, p + 1, lo, hi)

\* getReorderedIndices(string, {levels, paragraphs}, start, end): entry i is
\* the logical code unit index shown at visual position i.
getReorderedIndices(str, levels, paras, from, to) ==
  reorderParagraphs([i \in 0..(Len(str) - 1) |-> i], levels, paras, 1,
                    clampStart(from), clampEnd(Len(str), to))

\* string.codePointAt(i), i counted from 0.
codePointAt(str, i) ==
  IF /\ isHighSurrogate(str[i + 1])
     /\ i + 2 <= Len(str)
     /\ isLowSurrogate(str[i + 2])
  THEN 65536 + (str[i + 1] - 55296) * 1024 + (str[i + 2] - 56320)
  ELSE str[i + 1]

\* String.fromCodePoint(codePoint), as its code units.
fromCodePoint(codePoint) ==
  IF codePoint >= 65536
  THEN <<55296 + ((codePoint - 65536) \div 1024),
         56320 + ((codePoint - 65536) % 1024)>>
  ELSE <<codePoint>>

\* mirrorMap.get(char) || null: the mirrored character of a character, with
\* null as the empty sequence.
getMirroredCharacter(char) ==
  CASE char = <<40>> -> <<41>>
    [] char = <<41>> -> <<40>>
    [] char = <<60>> -> <<62>>
    [] char = <<62>> -> <<60>>
    [] char = <<91>> -> <<93>>
    [] char = <<93>> -> <<91>>
    [] char = <<123>> -> <<125>>
    [] char = <<125>> -> <<123>>
    [] char = <<171>> -> <<187>>
    [] char = <<187>> -> <<171>>
    [] OTHER -> << >>

anyLevel(levels, i) == TRUE

\* embeddingLevels[i] & 1
oddLevel(levels, i) == i \in DOMAIN levels /\ levels[i] % 2 = 1

\* The loop of getMirroredCharactersMap from code unit index i.
RECURSIVE mirrorLoop(_, _, _, _, _)
mirrorLoop(str, levels, i, to, m) ==
  IF i > to THEN m
  ELSE IF oddLevel(levels, i)
       THEN LET char == fromCodePoint(codePointAt(str, i))
                mirror == getMirroredCharacter(char)
            IN mirrorLoop(str, levels, i + Len(char), to,
                          IF mirror # << >> THEN (i :> mirror) @@ m ELSE m)
       ELSE mirrorLoop(str, levels, i + 1, to, m)

getMirroredCharactersMap(str, levels, from, to) ==
  mirrorLoop(str, levels, clampStart(from), clampEnd(Len(str), to), << >>)

\* The arguments start and end of a call: absent, or an index that may lie
\* outside the string.
SliceStarts == {Undefined, Num(-1), Num(1)}

SliceEnds == {Undefined, Num(1), Num(9)}

helperCall(from, to) ==
  /\ pc = "done"
  /\ start' = from
  /\ end' = to
  /\ UNCHANGED <<string, baseDirection, codePoints,
                 codePointIndexToCodeUnitIndex, codeUnitIndexToCodePointIndex,
                 charTypes, charTypeCounts, embedLevels, isolationPairs,
                 paragraphs, paraIdx, cpIdx, statusStack,
                 overflowIsolateCount, overflowEmbeddingCount,
                 validIsolateCount, levelRuns, runIdx, seqRuns, currentRun,
                 pdiCpIdx, isolatingRunSeqs, seqIdx, finalLevels>>

DoGetReorderedIndices ==
  \E from \in SliceStarts, to \in SliceEnds :
    /\ helperCall(from, to)
    /\ pc' = "reordered"
    /\ indices' = getReorderedIndices(string, finalLevels, paragraphs, from, to)
    /\ UNCHANGED map

DoGetMirroredCharactersMap ==
  \E from \in SliceStarts, to \in SliceEnds :
    /\ helperCall(from, to)
    /\ pc' = "mirrored"
    /\ map' = getMirroredCharactersMap(string, finalLevels, from, to)
    /\ UNCHANGED indices

\* The calls a caller makes on a result of getEmbeddingLevels.
NextHelper == DoGetReorderedIndices \/ DoGetMirroredCharactersMap

\* ------------------------------------------------- inputs

\* The strings of at most n code units over a set of code units.
Strings(units, n) == UNION {[1..k -> units] : k \in 0..n}

\* A call of getEmbeddingLevels(str, dir) with str and dir drawn from the sets.
InitOf(strs, dirs) ==
  \E str \in strs, dir \in dirs :
    /\ pc = "scan"
    /\ string = str
    /\ baseDirection = dir
    /\ codePoints = Entry(str, dir).codePoints
    /\ codePointIndexToCodeUnitIndex = Entry(str, dir).codePointIndexToCodeUnitIndex
    /\ codeUnitIndexToCodePointIndex = Entry(str, dir).codeUnitIndexToCodePointIndex
    /\ charTypes = Entry(str, dir).charTypes
    /\ charTypeCounts = Entry(str, dir).charTypeCounts
    /\ embedLevels = Entry(str, dir).embedLevels
    /\ isolationPairs = Entry(str, dir).isolationPairs
    /\ paragraphs = Entry(str, dir).paragraphs
    /\ paraIdx = Entry(str, dir).paraIdx
    /\ cpIdx = Entry(str, dir).cpIdx
    /\ statusStack = Entry(str, dir).statusStack
    /\ overflowIsolateCount = Entry(str, dir).overflowIsolateCount
    /\ overflowEmbeddingCount = Entry(str, dir).overflowEmbeddingCount
    /\ validIsolateCount = Entry(str, dir).validIsolateCount
    /\ levelRuns = Entry(str, dir).levelRuns
    /\ runIdx = Entry(str, dir).runIdx
    /\ seqRuns = Entry(str, dir).seqRuns
    /\ currentRun = Entry(str, dir).currentRun
    /\ pdiCpIdx = Entry(str, dir).pdiCpIdx
    /\ isolatingRunSeqs = Entry(str, dir).isolatingRunSeqs
    /\ seqIdx = Entry(str, dir).seqIdx
    /\ finalLevels = Entry(str, dir).finalLevels
    /\ start = Undefined
    /\ end = Undefined
    /\ indices = << >>
    /\ map = << >>

Directions == {"ltr", "rtl", "auto"}

\* What a string starts with: nothing, U+1F600 (ON) as a surrogate pair, or a
\* lone low surrogate (L).
Prefixes == {<< >>, <<55357, 56832>>, <<56832>>}

\* Code units after it: RLI, PDI, a Hebrew letter (R), a digit (EN).
IsolateUnits == {8295, 8297, 1488, 49}

Prefixed(prefixes, bodies) == {p \o b : p \in prefixes, b \in bodies}

Init == InitOf(Prefixed(Prefixes, Strings(IsolateUnits, MaxLen)), Directions)

Spec == Init /\ [][Next]_vars

\* Longest run of isolate controls after the emoji in the calls of FairSpec.
MaxControls == 3

\* Calls on U+1F600 followed by isolate initiators and PDIs.
InitControls ==
  InitOf(Prefixed({<<55357, 56832>>}, Strings({8295, 8297}, MaxControls)), {"ltr"})

\* The positions of a call.
Positions ==
  {"scan", "P1", "paragraph", "explicit", "runs", "seqStart", "chainTest",
   "chainSearch", "seqEnd", "W1", "W2", "W3", "W4", "W5", "W6", "W7", "N0",
   "N1", "implicit", "map", "done", "threw"}

\* The call has neither returned nor thrown.
Running == pc \notin {"done", "threw"}

\* Where a call stands: its position, and the code point or level run of the
\* loop it is in.
Place == <<pc, cpIdx, runIdx>>

\* A step of a running call: it moves to another place.
Advance ==
  /\ Running
  /\ pc' \in Positions
  /\ cpIdx' \in 0..Len(string)
  /\ runIdx' \in 0..Len(string)

\* Each step is taken as long as one is possible: the function runs on one
\* thread and is never suspended. A step of Next is possible exactly while the
\* call is running, and every step of Next changes the place (StepsAdvance), so
\* this is weak fairness of Next.
FairSpec == InitControls /\ [][Next]_vars /\ WF_Place(Advance)

\* Every step is taken by a running call and changes the place.
StepsAdvance == [][Running /\ Place' # Place]_vars

\* Number of nested RLE that brings the embedding level from 0 to MAX_DEPTH.
Deep == 63

\* Longest string after the nested RLE in the calls of DeepSpec.
MaxTail == 3

RECURSIVE repeat(_, _)
repeat(unit, k) == IF k = 0 THEN << >> ELSE <<unit>> \o repeat(unit, k - 1)

\* Calls on no RLE, Deep - 1 or Deep nested RLE, followed by a letter (L), RLE,
\* RLI and PDI.
InitDeep ==
  InitOf(Prefixed({repeat(8235, k) : k \in {0, Deep - 1, Deep}},
                  Strings({65, 8235, 8295, 8297}, MaxTail)),
         {"ltr", "rtl"})

DeepSpec == InitDeep /\ [][Next]_vars

\* Calls on Deep - 1 or Deep nested RLE followed by RLE, PDF, RLI and PDI: the
\* characters that act on the overflow counts.
InitOverflow ==
  InitOf(Prefixed({repeat(8235, k) : k \in {Deep - 1, Deep}},
                  Strings({8235, 8236, 8295, 8297}, MaxTail)),
         {"ltr"})

OverflowSpec == InitOverflow /\ [][Next]_vars

\* Longest string after the prefix in the calls of ParaSpec.
MaxPara == 4

\* The base directions of ParaSpec: the three documented values and a missing
\* argument.
AnyDirections == {"ltr", "rtl", "auto", "undefined"}

\* Calls on strings of several paragraphs: nothing or U+1F600, followed by a
\* Latin letter (L), a Hebrew letter (R), the paragraph separator U+2029 (B),
\* RLI and PDI.
InitPara ==
  InitOf(Prefixed({<< >>, <<55357, 56832>>},
                  Strings({65, 1488, 8233, 8295, 8297}, MaxPara)),
         AnyDirections)

ParaSpec == InitPara /\ [][Next]_vars

\* Longest string in the calls of TrailSpec.
MaxTrail == 4

\* Calls on a Hebrew letter (R), ZWSP (BN), space (WS), tab (S), U+2029 (B),
\* RLI and PDI.
InitTrail ==
  InitOf(Strings({1488, 8203, 32, 9, 8233, 8295, 8297}, MaxTrail), {"ltr", "rtl"})

TrailSpec == InitTrail /\ [][Next]_vars

\* Longest string of EmbedSpec besides the three examples.
MaxEmbed == 4

\* BidiCharacterTest.txt line 135: R LRE LRE PDF PDF WS EN WS EN
Row135 == <<1488, 8234, 8234, 8236, 8236, 32, 49, 32, 49>>

\* BidiCharacterTest.txt line 150: L RLE RLE PDF PDF WS EN WS EN
Row150 == <<65, 8235, 8235, 8236, 8236, 32, 49, 32, 49>>

\* "A" RLO "B" "C" PDF "D"
OverrideExample == <<65, 8238, 66, 67, 8236, 68>>

\* LRO RLI "A" PDI: an isolate inside an override.
OverrideIsolate == <<8237, 8295, 65, 8297>>

\* Calls on a Hebrew letter (R), LRE, PDF, a digit (EN), RLI and PDI, and on
\* the four examples.
InitEmbed ==
  InitOf(Strings({1488, 8234, 8236, 49, 8295, 8297}, MaxEmbed)
           \cup {Row135, Row150, OverrideExample, OverrideIsolate},
         Directions)

EmbedSpec == InitEmbed /\ [][Next]_vars

MaxSlice == 3

\* A returned result handed to getReorderedIndices or getMirroredCharactersMap:
\* strings of "(", "A" and the halves of U+1F600 with any array of levels 0..2
\* and with one paragraph at level 0 or 1, or a paragraph at level 0 ending at
\* code unit 0 and a second one at level 1; and the levels and the paragraph
\* that getEmbeddingLevels(Row135, "ltr") returns.
InitHelper ==
  \E str \in (Strings({40, 65, 55357, 56832}, MaxSlice) \ {<< >>}) \cup {Row135} :
    \E levels \in IF str = Row135 THEN {Arr(<<1, 1, 1, 1, 0, 0, 0, 0, 0>>)}
                  ELSE [0..(Len(str) - 1) -> 0..2] :
      \E paras \in
           IF str = Row135 THEN {<<[start |-> 0, end |-> 8, level |-> 0]>>}
           ELSE {<<[start |-> 0, end |-> Len(str) - 1, level |-> b]>> : b \in {0, 1}}
                  \cup (IF Len(str) < 2 THEN {}
                        ELSE {<<[start |-> 0, end |-> 0, level |-> 0],
                                [start |-> 1, end |-> Len(str) - 1, level |-> 1]>>}) :
        LET entry == Entry(str, "ltr") IN
        /\ pc = "done"
        /\ string = str
        /\ baseDirection = "ltr"
        /\ finalLevels = levels
        /\ paragraphs = paras
        /\ codePoints = entry.codePoints
        /\ codePointIndexToCodeUnitIndex = entry.codePointIndexToCodeUnitIndex
        /\ codeUnitIndexToCodePointIndex = entry.codeUnitIndexToCodePointIndex
        /\ charTypes = entry.charTypes
        /\ charTypeCounts = entry.charTypeCounts
        /\ embedLevels = entry.embedLevels
        /\ isolationPairs = entry.isolationPairs
        /\ paraIdx = entry.paraIdx
        /\ cpIdx = entry.cpIdx
        /\ statusStack = entry.statusStack
        /\ overflowIsolateCount = entry.overflowIsolateCount
        /\ overflowEmbeddingCount = entry.overflowEmbeddingCount
        /\ validIsolateCount = entry.validIsolateCount
        /\ levelRuns = entry.levelRuns
        /\ runIdx = entry.runIdx
        /\ seqRuns = entry.seqRuns
        /\ currentRun = entry.currentRun
        /\ pdiCpIdx = entry.pdiCpIdx
        /\ isolatingRunSeqs = entry.isolatingRunSeqs
        /\ seqIdx = entry.seqIdx
        /\ start = Undefined
        /\ end = Undefined
        /\ indices = << >>
        /\ map = << >>

HelperSpec == InitHelper /\ [][NextHelper]_vars

\* Longest string in the calls of OverrideSpec.
MaxOverride == 4

\* Calls on a Latin letter (L), a Hebrew letter (R), ZERO WIDTH SPACE (BN), RLO,
\* PDF, RLI and PDI.
InitOverride ==
  InitOf(Strings({65, 1488, 8203, 8238, 8236, 8295, 8297}, MaxOverride),
         {"ltr", "rtl"})

OverrideSpec == InitOverride /\ [][Next]_vars

\* Longest string in the calls of WeakSpec.
\* Calls on "A" (L), a Hebrew letter (R), BN, LRO, RLO, RLI and PDI.
InitOverrides ==
  InitOf(Strings({65, 1488, 8203, 8237, 8238, 8295, 8297}, MaxOverride),
         {"ltr", "rtl"})

OverridesSpec == InitOverrides /\ [][Next]_vars

MaxBracket == 4

\* "(a)"
BracketedLetter == <<40, 97, 41>>

\* "A(A)" followed by two NSM: with base rtl the pair is set to L against the
\* embedding direction.
BracketThenMarks == <<65, 40, 65, 41, 768, 768>>

\* "A(" NSM BN NSM "A)": marks and a BN after the opening bracket.
MarksInBracket == <<65, 40, 768, 8203, 768, 65, 41>>

\* "(1)" after a Hebrew letter, "([)]", and "(" RLI ")" PDI ")".
BracketExamples ==
  {BracketedLetter, BracketThenMarks, MarksInBracket,
   <<1488, 40, 49, 41>>, <<40, 91, 41, 93>>, <<40, 8295, 41, 8297, 41>>}

\* Calls on "(", ")", "[", "A" (L), a Hebrew letter (R) and NSM, and on the
\* examples.
InitBracket ==
  InitOf(Strings({40, 41, 91, 65, 1488, 768}, MaxBracket) \cup BracketExamples,
         {"ltr", "rtl"})

BracketSpec == InitBracket /\ [][Next]_vars

\* The number of "(" that fills the opener stack of BD16 in the calls of
\* OpenersSpec.
Openers == 63

\* Calls on Openers - 1 or Openers "(", alone or after "()", followed by up to
\* MaxTail of "(", ")", RLI and PDI.
InitOpeners ==
  InitOf(Prefixed({pre \o repeat(40, k) :
                     pre \in {<< >>, <<40, 41>>}, k \in {Openers - 1, Openers}},
                  Strings({40, 41, 8295, 8297}, MaxTail)),
         {"ltr"})

OpenersSpec == InitOpeners /\ [][Next]_vars

MaxFSI == 4

\* FSI FSI "A" B PDI R: the inner FSI has no PDI in its paragraph.
FSIAcrossParagraphs == <<8296, 8296, 65, 8233, 8297, 1488>>

\* Calls on FSI, PDI, "A" (L), a Hebrew letter (R) and U+2029 (B), and on the
\* example.
InitFSI ==
  InitOf(Strings({8296, 8297, 65, 1488, 8233}, MaxFSI) \cup {FSIAcrossParagraphs},
         {"ltr", "rtl"})

FSISpec == InitFSI /\ [][Next]_vars

MaxWeak == 4

\* Calls on an Arabic letter (AL), a digit (EN), "#" (ET), "," (CS), a Latin
\* letter (L), RLI and PDI.
InitWeak ==
  InitOf(Strings({1575, 49, 35, 44, 65, 8295, 8297}, MaxWeak), {"ltr", "rtl"})

WeakSpec == InitWeak /\ [][Next]_vars

\* ------------------------------------------------- properties

Returned == pc = "done"

\* The code points of the string in the state.
CodePointIndices == 0..(Cardinality(DOMAIN codePoints) - 1)

\* C1: every call of getEmbeddingLevels returns: whatever the string and the
\* base direction, the call reaches its return statement.
C1_Terminates == <>Returned

\* C2: the returned levels have one entry per code unit of the string, and the
\* two code units of a surrogate pair carry the same level.
C2_LevelsPerCodeUnit ==
  Returned =>
    /\ DOMAIN finalLevels = 0..(Len(string) - 1)
    /\ \A u \in 1..(Len(string) - 1) :
         isHighSurrogate(string[u]) /\ isLowSurrogate(string[u + 1])
           /\ codeUnitIndexToCodePointIndex[u - 1] = codeUnitIndexToCodePointIndex[u]
         => finalLevels[u - 1] = finalLevels[u]

\* A call has returned a level other than 0 for a surrogate pair.
C2_Witness ==
  /\ Returned
  /\ \E u \in 1..(Len(string) - 1) :
       /\ codeUnitIndexToCodePointIndex[u - 1] = codeUnitIndexToCodePointIndex[u]
       /\ finalLevels[u] > 0

\* A character of one code unit with the class of a character of two.
narrowChar(char) ==
  IF Len(char) = 1 THEN char
  ELSE LET type == getBidiCharType(char) IN
       CASE type = "ON" -> <<33>>
         [] type = "R" -> <<1488>>
         [] type = "EN" -> <<49>>
         [] type = "BN" -> <<8203>>
         [] OTHER -> <<65>>

RECURSIVE narrowed(_, _)
narrowed(cps, i) ==
  IF i > Len(cps) THEN << >>
  ELSE narrowChar(cps[i]) \o narrowed(cps, i + 1)

\* The string with every surrogate pair replaced by one code unit of its class.
narrow(str) == narrowed(arrayFrom(str), 1)

\* C4: the level of a code point does not depend on the widths of the code
\* points: the call returns, for every code point, the level that the call on
\* the string with every surrogate pair replaced by a character of the same
\* class and one code unit returns, and the same paragraph levels.
C4_WidthIndependent ==
  Returned =>
    LET r == getEmbeddingLevels(narrow(string), baseDirection) IN
    /\ r.pc = "done"
    /\ \A i \in CodePointIndices : embedLevels[i] = r.embedLevels[i]
    /\ Len(paragraphs) = Len(r.paragraphs)
    /\ \A p \in 1..Len(paragraphs) : paragraphs[p].level = r.paragraphs[p].level

\* C3 as stated: no returned level exceeds MAX_DEPTH.
C3_WithinMaxDepth ==
  Returned => \A u \in DOMAIN finalLevels : finalLevels[u] \in 0..MAX_DEPTH

\* C3, amended: the explicit levels assigned by X1-X8 are in [0, MAX_DEPTH], and
\* every returned level is in [0, MAX_DEPTH + 1]: I1/I2 raise a letter at the
\* odd level MAX_DEPTH by one.
C3_WithinMaxDepthPlusOne ==
  /\ pc = "runs" =>
       \A i \in paraStartCpIdx(State)..paraEndCpIdx(State) :
         embedLevels[i] \in 0..MAX_DEPTH
  /\ Returned => \A u \in DOMAIN finalLevels : finalLevels[u] \in 0..(MAX_DEPTH + 1)

\* A call has returned the level MAX_DEPTH + 1.
C3_Witness ==
  Returned /\ \E u \in DOMAIN finalLevels : finalLevels[u] = MAX_DEPTH + 1

\* The code points of paragraph p.
firstCp(p) == codeUnitIndexToCodePointIndex[p.start]

lastCp(p) == codeUnitIndexToCodePointIndex[p.end]

\* The first paragraph separator of the string in the state, 0 if none.
firstSeparator ==
  IF \E u \in 1..Len(string) : string[u] = 8233
  THEN CHOOSE u \in 1..Len(string) :
         string[u] = 8233 /\ \A v \in 1..(u - 1) : string[v] # 8233
  ELSE 0

\* C5: paragraphs are resolved independently: a call on s1 + U+2029 + s2, s1
\* without B, returns for the first paragraph the base level and the levels of
\* the call on s1 + U+2029, and for the rest the paragraph base levels and the
\* levels of the call on s2.
C5_ParagraphsIndependent ==
  Returned /\ firstSeparator > 0 =>
    LET b == firstSeparator
        r1 == getEmbeddingLevels(SubSeq(string, 1, b), baseDirection)
        r2 == getEmbeddingLevels(SubSeq(string, b + 1, Len(string)), baseDirection)
    IN r1.pc = "done" /\ r2.pc = "done" =>
         /\ paragraphs[1].level = r1.paragraphs[1].level
         /\ \A u \in 0..(b - 1) : finalLevels[u] = r1.finalLevels[u]
         /\ Len(paragraphs) = 1 + Len(r2.paragraphs)
         /\ \A q \in 1..Len(r2.paragraphs) :
              paragraphs[q + 1].level = r2.paragraphs[q].level
         /\ \A u \in 0..(Len(string) - b - 1) :
              finalLevels[b + u] = r2.finalLevels[u]

\* The class of code point i before resolution rewrote it.
originalClass(i) == getBidiCharType(codePoints[i])

\* The original class of the code point that holds code unit u (0-based).
unitType(u) == originalClass(codeUnitIndexToCodePointIndex[u])

\* C6: once P1 has split the string, the paragraph records partition its code
\* units in order: the first starts at 0, each next one starts right after the
\* end of the one before, the last ends at length - 1, every paragraph but the
\* last ends at a B, no B lies before the end of a paragraph, every level is 0
\* or 1, and the empty string has no paragraph.
C6_ParagraphsPartition ==
  pc \notin {"scan", "P1"} =>
    LET n == Len(paragraphs) IN
    /\ (Len(string) = 0) = (n = 0)
    /\ n > 0 => paragraphs[1].start = 0 /\ paragraphs[n].end = Len(string) - 1
    /\ \A q \in 1..n :
         /\ paragraphs[q].start <= paragraphs[q].end
         /\ paragraphs[q].level \in {0, 1}
         /\ q < n => /\ paragraphs[q + 1].start = paragraphs[q].end + 1
                     /\ unitType(paragraphs[q].end) = "B"
         /\ \A u \in paragraphs[q].start..(paragraphs[q].end - 1) :
              unitType(u) # "B"

\* A call has returned two paragraphs, the second one after a surrogate pair.
C6_Witness ==
  /\ Returned
  /\ Len(paragraphs) = 2
  /\ codeUnitIndexToCodePointIndex[paragraphs[2].start] < paragraphs[2].start

\* BD9 within the code points from..to: the PDI that matches the isolate
\* initiator at from - 1, or to + 1 if there is none.
RECURSIVE matchingPDIWithin(_, _, _)
matchingPDIWithin(from, to, depth) ==
  IF from > to THEN to + 1
  ELSE IF originalClass(from) = "PDI"
       THEN IF depth = 1 THEN from ELSE matchingPDIWithin(from + 1, to, depth - 1)
       ELSE IF originalClass(from) \in ISOLATE_INIT_TYPES
            THEN matchingPDIWithin(from + 1, to, depth + 1)
            ELSE matchingPDIWithin(from + 1, to, depth)

\* P2-P3 within the code points from..to: 1 if the first strong character that
\* is not inside an isolate is R or AL, else 0.
RECURSIVE firstStrongLevel(_, _)
firstStrongLevel(from, to) ==
  IF from > to THEN 0
  ELSE IF originalClass(from) \in {"R", "AL"} THEN 1
  ELSE IF originalClass(from) = "L" THEN 0
  ELSE IF originalClass(from) \in ISOLATE_INIT_TYPES
       THEN firstStrongLevel(matchingPDIWithin(from + 1, to, 1) + 1, to)
       ELSE firstStrongLevel(from + 1, to)

\* C7: with base direction ltr every paragraph has level 0, with rtl level 1,
\* and with any other value the level given by the first strong character of
\* the paragraph that is not between an isolate initiator and its matching PDI
\* (or the end of the paragraph).
C7_BaseDirection ==
  Returned =>
    \A q \in 1..Len(paragraphs) :
      paragraphs[q].level =
        IF baseDirection = "ltr" THEN 0
        ELSE IF baseDirection = "rtl" THEN 1
        ELSE firstStrongLevel(firstCp(paragraphs[q]), lastCp(paragraphs[q]))

\* C9: in the returned levels a code point whose original class is BN-like has
\* the level of the code point before it in its paragraph, or the paragraph
\* level if it is the first of its paragraph.
C9_BNLikeTakesPrecedingLevel ==
  Returned =>
    \A q \in 1..Len(paragraphs) :
      \A i \in firstCp(paragraphs[q])..lastCp(paragraphs[q]) :
        originalClass(i) \in BN_LIKE_TYPES =>
          embedLevels[i] = IF i = firstCp(paragraphs[q]) THEN paragraphs[q].level
                           ELSE embedLevels[i - 1]

\* Code point i starts a run of original class TRAILING that reaches an S, a B
\* or the end of its paragraph, which ends at code point last.
trailsTo(i, last) ==
  \E j \in i..last :
    /\ \A k \in i..j : originalClass(k) \in TRAILING_TYPES
    /\ j = last \/ originalClass(j) \in {"S", "B"}

\* C10: in the returned levels every code point of original class S or B, and
\* every code point of a run of original class TRAILING that reaches an S, a B
\* or the end of the paragraph, has the paragraph level.
C10_TrailingReset ==
  Returned =>
    \A q \in 1..Len(paragraphs) :
      \A i \in firstCp(paragraphs[q])..lastCp(paragraphs[q]) :
        trailsTo(i, lastCp(paragraphs[q])) => embedLevels[i] = paragraphs[q].level

\* A call has returned the paragraph level for a white space that neutral
\* resolution had rewritten to R at an odd level inside an isolate.
C10_Witness ==
  /\ Returned
  /\ \E q \in 1..Len(paragraphs) :
       \E i \in firstCp(paragraphs[q])..lastCp(paragraphs[q]) :
         /\ trailsTo(i, lastCp(paragraphs[q]))
         /\ originalClass(i) = "WS"
         /\ charTypes[i] = "R"
         /\ paragraphs[q].level = 0
         /\ embedLevels[i] = 0

\* The positions of str left when every embedding or override initiator that
\* is directly followed by a PDF is deleted with that PDF, again and again:
\* idxs is the sequence of positions still there.
RECURSIVE withoutEmptyEmbeddings(_, _)
withoutEmptyEmbeddings(str, idxs) ==
  LET empty == {k \in 1..(Len(idxs) - 1) :
                  /\ str[idxs[k]] \in {8234, 8235, 8237, 8238}
                  /\ str[idxs[k + 1]] = 8236}
  IN IF empty = {} THEN idxs
     ELSE LET k == CHOOSE k \in empty : \A j \in empty : k <= j IN
          withoutEmptyEmbeddings(str,
            SubSeq(idxs, 1, k - 1) \o SubSeq(idxs, k + 2, Len(idxs)))

\* The levels of the code units at the given positions.
levelsAt(positions) == [k \in 1..Len(positions) |-> finalLevels[positions[k] - 1]]

\* C11: embedding initiators directly followed by their PDF are transparent:
\* the call on the string without them returns, for every character that is
\* not BN-like, the level that the call on the whole string returns; line 135
\* of BidiCharacterTest.txt resolves its other characters to 1,1,2,1,2 with
\* base ltr and line 150 to 2,2,2,2,2 with base rtl.
C11_EmptyEmbeddingsTransparent ==
  Returned /\ (\A u \in 1..Len(string) : ~isHighSurrogate(string[u])) =>
    LET kept == withoutEmptyEmbeddings(string, [u \in 1..Len(string) |-> u])
        r == getEmbeddingLevels([k \in 1..Len(kept) |-> string[kept[k]]],
                                baseDirection)
    IN /\ \A k \in 1..Len(kept) :
            getBidiCharType(<<string[kept[k]]>>) \notin BN_LIKE_TYPES =>
              finalLevels[kept[k] - 1] = r.finalLevels[k - 1]
       /\ string = Row135 /\ baseDirection = "ltr" =>
            levelsAt(<<1, 6, 7, 8, 9>>) = <<1, 1, 2, 1, 2>>
       /\ string = Row150 /\ baseDirection = "rtl" =>
            levelsAt(<<1, 6, 7, 8, 9>>) = <<2, 2, 2, 2, 2>>

\* The call on "A" RLO "B" "C" PDF "D" with base auto has returned.
OverrideExampleReturned ==
  Returned /\ string = OverrideExample /\ baseDirection = "auto"

\* C12 as stated: for "A" RLO "B" "C" PDF "D" with base auto the paragraph
\* level is 0 and the levels are [0,0,1,1,0,0].
C12_OverrideExamplePDFAtBase ==
  OverrideExampleReturned =>
    /\ paragraphs = <<[start |-> 0, end |-> 5, level |-> 0]>>
    /\ levelsAt(<<1, 2, 3, 4, 5, 6>>) = <<0, 0, 1, 1, 0, 0>>

\* C12, amended: for "A" RLO "B" "C" PDF "D" with base auto the paragraph level
\* is 0 and the levels are [0,0,1,1,1,0]: the two overridden letters get
\* level 1, the RLO the level 0 of "A" before it and the PDF the level 1 of "C"
\* before it (rule 5.2).
C12_OverrideExample ==
  OverrideExampleReturned =>
    /\ paragraphs = <<[start |-> 0, end |-> 5, level |-> 0]>>
    /\ levelsAt(<<1, 2, 3, 4, 5, 6>>) = <<0, 0, 1, 1, 1, 0>>

\* The call on the example has returned level 1 for the PDF.
C12_Witness == OverrideExampleReturned /\ finalLevels[4] = 1

\* The clamped slice of the call in the state.
sliceFrom == clampStart(start)

sliceTo == clampEnd(Len(string), end)

\* The positions of indices whose code unit has a determinate expected level.
RECURSIVE dropped(_, _, _)
dropped(ind, i, xs) ==
  IF i >= Cardinality(DOMAIN ind) THEN << >>
  ELSE IF ind[i] \in xs THEN dropped(ind, i + 1, xs)
       ELSE <<ind[i]>> \o dropped(ind, i + 1, xs)

\* C13: getReorderedIndices returns a permutation: the array has one entry
\* per code unit of the string and every index 0..len-1 occurs exactly once,
\* for any level array and any slice; positions outside the clamped slice
\* keep their own index and the positions of the slice hold the indices of the
\* slice. A run of one level is reversed as a whole (levels 1 1 1 of a
\* paragraph at level 0 give 2 1 0), and the levels 1 1 1 1 0 0 0 0 0 returned
\* for row 135 of BidiCharacterTest.txt give the order 0 5 6 7 8 once the
\* indeterminate positions 1..4 are dropped.
C13_ReorderedIndicesPermutation ==
  pc = "reordered" =>
    /\ DOMAIN indices = 0..(Len(string) - 1)
    /\ {indices[i] : i \in DOMAIN indices} = 0..(Len(string) - 1)
    /\ \A i \in DOMAIN indices :
         IF i \in sliceFrom..sliceTo THEN indices[i] \in sliceFrom..sliceTo
         ELSE indices[i] = i
    /\ (/\ Len(string) = 3
        /\ \A u \in 0..2 : finalLevels[u] = 1
        /\ paragraphs = <<[start |-> 0, end |-> 2, level |-> 0]>>
        /\ start = Undefined /\ end = Undefined)
         => indices = Arr(<<2, 1, 0>>)
    /\ (string = Row135 /\ start = Undefined /\ end = Undefined)
         => dropped(indices, 0, 1..4) = <<0, 5, 6, 7, 8>>

\* A call whose result is not the identity: some code unit is shown at
\* another position than its own.
C13_Witness ==
  /\ pc = "reordered"
  /\ Len(string) = 3
  /\ \E i \in DOMAIN indices : indices[i] # i
  /\ start = Num(1)

\* C14: getMirroredCharactersMap has the key i exactly when i lies in the
\* clamped range, the level of code unit i is odd and the code point starting
\* at i has a mirrored character, and the value is that character; no key has
\* an even level or lies outside the range, and of the two code units of a
\* surrogate pair at most the first is a key.
C14_MirroredCharactersMap ==
  pc = "mirrored" =>
    /\ DOMAIN map =
         {i \in sliceFrom..sliceTo :
            /\ finalLevels[i] % 2 = 1
            /\ getMirroredCharacter(fromCodePoint(codePointAt(string, i))) # << >>}
    /\ \A i \in DOMAIN map :
         /\ map[i] = getMirroredCharacter(fromCodePoint(codePointAt(string, i)))
         /\ finalLevels[i] % 2 = 1
         /\ i >= 0 /\ i <= Len(string) - 1
         /\ start # Undefined => i >= start.n
         /\ end # Undefined => i <= end.n
         /\ ~ (/\ i >= 1
               /\ isHighSurrogate(string[i])
               /\ isLowSurrogate(string[i + 1]))

\* A call that returns a key, on a string that also holds a parenthesis at an
\* even level or outside the range.
C14_Witness ==
  /\ pc = "mirrored"
  /\ DOMAIN map # {}
  /\ \E i \in 0..(Len(string) - 1) : string[i + 1] = 40 /\ i \notin DOMAIN map


\* The loop of X1-X8 is at a character of the paragraph, or has just ended.
InExplicit == pc \in {"explicit", "runs"}

\* The code points of the paragraph that the loop of X1-X8 has processed.
processed ==
  IF pc = "explicit" THEN paraStartCpIdx(State)..(cpIdx - 1)
  ELSE paraStartCpIdx(State)..cpIdx

\* The stack of X1-X8 is well formed.
statusStackBounded ==
  /\ Len(statusStack) \in 1..(MAX_DEPTH + 1)
  /\ statusStack[1]._level = paragraphOf(State).level
  /\ statusStack[1]._override = "none"
  /\ ~ statusStack[1]._isolate
  /\ \A i, j \in 1..Len(statusStack) :
       i < j => statusStack[i]._level < statusStack[j]._level
  /\ \A i \in 1..Len(statusStack) : statusStack[i]._level <= MAX_DEPTH
  /\ \A i \in processed : embedLevels[i] <= MAX_DEPTH

\* The character at cpIdx is an embedding, override or isolate initiator whose
\* frame would have a level above MAX_DEPTH.
pushWouldExceed ==
  /\ pc = "explicit"
  /\ LET top == Top(statusStack)._level IN
       \/ charTypes[cpIdx] \in {"RLE", "RLO", "RLI", "FSI"} /\ nextOdd(top) > MAX_DEPTH
       \/ charTypes[cpIdx] \in {"LRE", "LRO", "LRI"} /\ nextEven(top) > MAX_DEPTH

\* C15 as stated: during X1-X8 the status stack holds 1 to 126 frames, its
\* bottom frame is the paragraph level with no override and not isolate, the
\* levels strictly increase from bottom to top, none is above 125 and no
\* processed character has an explicit level above 125; and every push that
\* would exceed 125 is dropped and adds one to an overflow count.
C15_EveryDroppedPushCounted ==
  [][/\ InExplicit => statusStackBounded
     /\ InExplicit' => statusStackBounded'
     /\ pushWouldExceed =>
          /\ statusStack' = statusStack
          /\ overflowIsolateCount' + overflowEmbeddingCount'
               = overflowIsolateCount + overflowEmbeddingCount + 1]_vars

\* C15: during X1-X8 the status stack holds 1 to 126 frames, its bottom frame
\* is the paragraph level with no override and not isolate, the levels
\* strictly increase from bottom to top, none is above 125 and no processed
\* character has an explicit level above 125; a push that would exceed 125 is
\* dropped, an isolate initiator then adds one to overflowIsolate, and an
\* embedding or override initiator adds one to overflowEmbedding unless
\* overflowIsolate > 0, when it changes no count.
C15_StatusStackBounded ==
  [][/\ InExplicit => statusStackBounded
     /\ InExplicit' => statusStackBounded'
     /\ pushWouldExceed =>
          /\ statusStack' = statusStack
          /\ validIsolateCount' = validIsolateCount
          /\ IF charTypes[cpIdx] \in ISOLATE_INIT_TYPES
             THEN /\ overflowIsolateCount' = overflowIsolateCount + 1
                  /\ overflowEmbeddingCount' = overflowEmbeddingCount
             ELSE /\ overflowIsolateCount' = overflowIsolateCount
                  /\ overflowEmbeddingCount' =
                       IF overflowIsolateCount = 0
                       THEN overflowEmbeddingCount + 1
                       ELSE overflowEmbeddingCount]_vars

\* The character just processed.
lastProcessed == IF pc = "explicit" THEN cpIdx - 1 ELSE cpIdx

\* An RLE was just dropped at the top level 125 inside an overflow isolate
\* after an earlier RLE was dropped and counted.
C15_Witness ==
  /\ InExplicit
  /\ lastProcessed \in processed
  /\ originalClass(lastProcessed) = "RLE"
  /\ Top(statusStack)._level = MAX_DEPTH
  /\ overflowIsolateCount > 0
  /\ overflowEmbeddingCount > 0

\* The state of the call on the string in the state when the loop of X1-X8 of
\* paragraph p is about to process code point i.
RECURSIVE stateAt(_, _, _, _)
stateAt(s, p, i, fuel) ==
  IF fuel = 0 \/ (s.pc = "explicit" /\ s.paraIdx = p /\ s.cpIdx = i) THEN s
  ELSE stateAt(Step(s), p, i, fuel - 1)

stateBefore(i) ==
  stateAt(Entry(string, baseDirection), paraIdx, i, stepBound(string))

\* The loop of X1-X8 is at a PDI that matches a valid isolate initiator.
atMatchedPDI ==
  /\ pc = "explicit"
  /\ charTypes[cpIdx] = "PDI"
  /\ overflowIsolateCount = 0
  /\ validIsolateCount > 0

\* The code point index held by the topmost isolate frame.
topIsolInitIndex ==
  LET k == CHOOSE k \in 1..Len(statusStack) :
             /\ statusStack[k]._isolate
             /\ \A j \in (k + 1)..Len(statusStack) : ~ statusStack[j]._isolate
  IN statusStack[k]._isolInitIndex

\* C16: when a PDI matches a valid isolate initiator, the state right after
\* the PDI is the state right before that initiator was processed: the same
\* status stack, overflowEmbedding 0, overflowIsolate 0 and the same
\* validIsolate; the PDI gets the explicit level of its initiator, and the
\* isolation-pair map holds the code unit index of each under the code unit
\* index of the other.
C16_MatchedPDIRestores ==
  [][atMatchedPDI =>
       /\ pc' \in {"explicit", "runs"}
       /\ LET init == topIsolInitIndex
              before == stateBefore(init)
          IN /\ before.pc = "explicit" /\ before.cpIdx = init
             /\ getBidiCharType(codePoints[init]) \in ISOLATE_INIT_TYPES
             /\ statusStack' = before.statusStack
             /\ overflowEmbeddingCount' = 0
             /\ before.overflowEmbeddingCount = 0
             /\ overflowIsolateCount' = before.overflowIsolateCount
             /\ validIsolateCount' = before.validIsolateCount
             /\ embedLevels'[cpIdx] = embedLevels[init]
             /\ isolationPairs'[codePointIndexToCodeUnitIndex[init]]
                  = codePointIndexToCodeUnitIndex[cpIdx]
             /\ isolationPairs'[codePointIndexToCodeUnitIndex[cpIdx]]
                  = codePointIndexToCodeUnitIndex[init]]_vars

\* A PDI has just closed an isolate in which an LRE was pushed: RLI LRE PDI.
C16_Witness ==
  /\ InExplicit
  /\ lastProcessed - 2 \in processed
  /\ originalClass(lastProcessed) = "PDI"
  /\ originalClass(lastProcessed - 1) = "LRE"
  /\ originalClass(lastProcessed - 2) = "RLI"
  /\ isolationPairs[codePointIndexToCodeUnitIndex[lastProcessed]]
       = codePointIndexToCodeUnitIndex[lastProcessed - 2]
  /\ Len(statusStack) = 1

\* The loop of X1-X8 is at a PDI that matches no isolate initiator.
atUnmatchedPDI ==
  /\ pc = "explicit"
  /\ charTypes[cpIdx] = "PDI"
  /\ overflowIsolateCount = 0
  /\ validIsolateCount = 0

\* C17 as stated: an unmatched PDI increments an overflow count.
C17_UnmatchedPDICounted ==
  [][atUnmatchedPDI =>
       \/ overflowIsolateCount' = overflowIsolateCount + 1
       \/ overflowEmbeddingCount' = overflowEmbeddingCount + 1]_vars

\* C17: an unmatched PDI (overflowIsolate = 0 and validIsolate = 0) leaves the
\* status stack, the three counts and the isolation-pair map unchanged and
\* gets the level of the top frame; and an isolate initiator whose frame is
\* still on the stack when the loop of X1-X8 ends has no entry in the
\* isolation-pair map.
C17_UnmatchedPDIChangesNothing ==
  [][/\ atUnmatchedPDI =>
          /\ statusStack' = statusStack
          /\ overflowIsolateCount' = overflowIsolateCount
          /\ overflowEmbeddingCount' = overflowEmbeddingCount
          /\ validIsolateCount' = validIsolateCount
          /\ isolationPairs' = isolationPairs
          /\ embedLevels'[cpIdx] = Top(statusStack)._level
     /\ pc' = "runs" =>
          \A k \in 1..Len(statusStack') :
            statusStack'[k]._isolate =>
              isolationPairs'[codePointIndexToCodeUnitIndex[statusStack'[k]._isolInitIndex]]
                = -1]_vars

\* The loop of X1-X8 has just processed a PDI that is the first character of
\* its paragraph.
C17_Witness ==
  /\ InExplicit
  /\ lastProcessed = paraStartCpIdx(State)
  /\ originalClass(lastProcessed) = "PDI"
  /\ overflowIsolateCount = 0
  /\ overflowEmbeddingCount = 0
  /\ validIsolateCount = 0

\* The status stack and the counts named are the same after the step.
keeps(counts) ==
  /\ statusStack' = statusStack
  /\ "overflowIsolate" \in counts => overflowIsolateCount' = overflowIsolateCount
  /\ "overflowEmbedding" \in counts => overflowEmbeddingCount' = overflowEmbeddingCount
  /\ "validIsolate" \in counts => validIsolateCount' = validIsolateCount

\* C18: while overflowIsolate > 0, RLE, LRE, RLO, LRO and PDF leave the status
\* stack and the three counts unchanged and a PDI only decrements
\* overflowIsolate; a PDF pops at most one frame, never an isolate frame nor
\* the bottom frame, and with overflowEmbedding > 0 and overflowIsolate = 0 it
\* only decrements overflowEmbedding; the counts are never negative.
C18_OverflowFrameEffects ==
  [][pc = "explicit" =>
       LET type == charTypes[cpIdx] IN
       /\ (overflowIsolateCount > 0 /\ type \in {"RLE", "LRE", "RLO", "LRO", "PDF"})
            => keeps({"overflowIsolate", "overflowEmbedding", "validIsolate"})
       /\ (overflowIsolateCount > 0 /\ type = "PDI")
            => /\ keeps({"overflowEmbedding", "validIsolate"})
               /\ overflowIsolateCount' = overflowIsolateCount - 1
       /\ type = "PDF"
            => \/ statusStack' = statusStack
               \/ /\ statusStack' = Pop(statusStack)
                  /\ ~ Top(statusStack)._isolate
                  /\ Len(statusStack) > 1
       /\ (type = "PDF" /\ overflowEmbeddingCount > 0 /\ overflowIsolateCount = 0)
            => /\ keeps({"overflowIsolate", "validIsolate"})
               /\ overflowEmbeddingCount' = overflowEmbeddingCount - 1
       /\ overflowIsolateCount >= 0 /\ overflowIsolateCount' >= 0
       /\ overflowEmbeddingCount >= 0 /\ overflowEmbeddingCount' >= 0
       /\ validIsolateCount >= 0 /\ validIsolateCount' >= 0]_vars

\* A PDF has just been processed inside an overflow isolate, above a stack of
\* embedding frames.
C18_Witness ==
  /\ InExplicit
  /\ lastProcessed \in processed
  /\ originalClass(lastProcessed) = "PDF"
  /\ overflowIsolateCount > 0
  /\ Len(statusStack) > 1

\* The frames of the status stack with the isolate flag.
isolateFrames == {k \in 1..Len(statusStack) : statusStack[k]._isolate}

\* C19: during X1-X8 validIsolateCount is the number of isolate frames on the
\* status stack and the bottom frame is there and is not an isolate frame, so
\* the loop of X6a that pops until it finds an isolate frame finds one above
\* the bottom frame; the call never reads the top of an empty stack.
C19_ValidIsolateCountsFrames ==
  /\ pc # "threw"
  /\ InExplicit =>
       /\ validIsolateCount = Cardinality(isolateFrames)
       /\ Len(statusStack) >= 1
       /\ 1 \notin isolateFrames
       /\ atMatchedPDI =>
            /\ Len(popToIsolate(statusStack)) >= 2
            /\ Top(popToIsolate(statusStack))._isolate

\* The pop loop has just run for the PDI of RLI RLI LRE PDI: it popped the
\* LRE frame and the inner isolate frame and left the outer one.
C19_Witness ==
  /\ InExplicit
  /\ lastProcessed - 1 \in processed
  /\ originalClass(lastProcessed) = "PDI"
  /\ originalClass(lastProcessed - 1) = "LRE"
  /\ validIsolateCount = 1
  /\ Len(statusStack) = 2
  /\ Top(statusStack)._isolate

\* The isolating run sequences of the paragraph are complete: the loop over
\* levelRuns has ended and W1 has not started.
sequencesBuilt == pc = "W1" /\ seqIdx = 0

\* The places <<sequence, position>> at which code point i occurs in the
\* isolating run sequences.
placesOf(i) ==
  {<<q, k>> \in (1..Len(isolatingRunSeqs)) \X (1..numCodePointsOf(State)) :
     /\ k <= Len(isolatingRunSeqs[q]._seqIndices)
     /\ isolatingRunSeqs[q]._seqIndices[k] = i}

\* The code point that X6a paired with code point i, -1 if none.
pairedWith(i) ==
  LET unit == isolationPairs[codePointIndexToCodeUnitIndex[i]] IN
  IF unit = -1 THEN -1 ELSE codeUnitIndexToCodePointIndex[unit]

\* C20: the isolating run sequences partition the level runs of a paragraph:
\* every code point of every level run occurs in exactly one sequence, once;
\* and a level run that starts with a PDI matched to an isolate initiator
\* follows that initiator directly in the same sequence, so it does not start
\* a sequence.
C20_SequencesPartitionRuns ==
  sequencesBuilt =>
    \A r \in 1..Len(levelRuns) :
      LET run == levelRuns[r] IN
      /\ \A i \in run._start..run._end : Cardinality(placesOf(i)) = 1
      /\ (originalClass(run._start) = "PDI" /\ pairedWith(run._start) # -1)
           => \E <<q, k>> \in placesOf(run._start) :
                /\ k > 1
                /\ isolatingRunSeqs[q]._seqIndices[k - 1] = pairedWith(run._start)

\* The weak and neutral rules are resolving the sequences of the paragraph.
InSequences == pc \in {"W1", "W2", "W3", "W4", "W5", "W6", "W7", "N0", "N1"}

\* C21: all code points of the index list of one isolating run sequence, the
\* BN inside its level runs included, have the same explicit level, the level
\* of its first code point, from which the embedding direction is taken; and
\* the weak and neutral rules never write the level array.
C21_SequenceLevelConstant ==
  [][InSequences =>
       /\ embedLevels' = embedLevels
       /\ \A q \in 1..Len(isolatingRunSeqs) :
            \A k \in 1..Len(isolatingRunSeqs[q]._seqIndices) :
              embedLevels[isolatingRunSeqs[q]._seqIndices[k]]
                = embedLevels[isolatingRunSeqs[q]._seqIndices[1]]]_vars

\* C21 without the BN: the code points of one isolating run sequence that are
\* not BN have the same explicit level, the level of its first code point; a BN
\* inside a level run has the level of the frame it was processed under, which
\* may differ; and the weak and neutral rules never write the level array.
C21_SequenceLevelConstantButBN ==
  [][InSequences =>
       /\ embedLevels' = embedLevels
       /\ \A q \in 1..Len(isolatingRunSeqs) :
            \A k \in 1..Len(isolatingRunSeqs[q]._seqIndices) :
              LET i == isolatingRunSeqs[q]._seqIndices[k] IN
              originalClass(i) # "BN" =>
                embedLevels[i] = embedLevels[isolatingRunSeqs[q]._seqIndices[1]]]_vars

\* The implicit-level step of the paragraph is about to begin.
implicitBegins == pc = "implicit" /\ cpIdx = paraStartCpIdx(State)

\* The code points of the paragraph being resolved.
paragraphCodePoints == paraStartCpIdx(State)..paraEndCpIdx(State)

\* C22: when the implicit-level step of a paragraph begins, no code point of
\* the paragraph has class AL, ET, ES or CS, and none has a class of
\* NEUTRAL_ISOLATE_TYPES (B, S, WS, ON, FSI, LRI, RLI, PDI).
C22_NoWeakOrNeutralLeft ==
  implicitBegins =>
    \A i \in paragraphCodePoints :
      charTypes[i] \notin {"AL", "ET", "ES", "CS"} \cup NEUTRAL_ISOLATE_TYPES

\* The last code point of the paragraph of code point i: the first B at or
\* after i, or the last code point of the string.
paragraphEndOf(i) ==
  LET last == Cardinality(DOMAIN codePoints) - 1
      separators == {j \in i..last : originalClass(j) = "B"}
  IN IF separators = {} THEN last
     ELSE CHOOSE j \in separators : \A k \in separators : j <= k

\* X5c by BD9 and P2-P3: the FSI at code point i is an RLI if the first strong
\* character between it and its matching PDI, or the end of its paragraph, that
\* is not inside a nested isolate is R or AL; else it is an LRI.
resolvedFSI(i) ==
  LET to == paragraphEndOf(i)
      pdi == matchingPDIWithin(i + 1, to, 1)
  IN IF firstStrongLevel(i + 1, pdi - 1) = 1 THEN 8295 ELSE 8294

\* The string in the state with every FSI replaced by the RLI or the LRI it
\* resolves to.
withResolvedFSI ==
  [u \in 1..Len(string) |->
     IF string[u] = 8296
     THEN resolvedFSI(codeUnitIndexToCodePointIndex[u - 1])
     ELSE string[u]]

\* C23: an FSI acts as the RLI or the LRI that BD9 and P2-P3 resolve it to
\* within its paragraph: the call returns the levels and the paragraph levels
\* of the call on the string with every FSI replaced by that RLI or LRI.
C23_FSIActsAsResolved ==
  Returned =>
    LET r == getEmbeddingLevels(withResolvedFSI, baseDirection) IN
    /\ r.pc = "done"
    /\ finalLevels = r.finalLevels
    /\ Len(paragraphs) = Len(r.paragraphs)
    /\ \A q \in 1..Len(paragraphs) : paragraphs[q].level = r.paragraphs[q].level

\* C23 within one paragraph: on a string without B, or with a single B as its
\* last character, an FSI acts as the RLI or the LRI it resolves to.
C23_FSIActsAsResolvedInOneParagraph ==
  (\A u \in 1..(Len(string) - 1) : string[u] # 8233) => C23_FSIActsAsResolved

\* The classes that X1-X8 never rewrite to the class of an override.
UNOVERRIDDEN_TYPES == {"RLE", "LRE", "RLO", "LRO", "PDF", "B", "BN"}

\* The frame whose level and override the character at cpIdx is given: the
\* top frame when the character is met and, for a PDI, the top frame left by
\* X6a.
frameOf(s) ==
  IF s.charTypes[s.cpIdx] = "PDI" THEN Top(ExplicitStep(s).statusStack)
  ELSE Top(s.statusStack)

\* The frame of code point i of paragraph q in the call on the string in the
\* state.
frameAt(q, i) ==
  frameOf(stateAt(Entry(string, baseDirection), q - 1, i, stepBound(string)))

\* C24: in X1-X8 a character that is not RLE, LRE, RLO, LRO, PDF, B or BN and
\* whose frame has override R (resp. L) gets class R (resp. L) and the level of
\* that frame, isolate initiators and PDI included, and a BN keeps class BN;
\* in the returned levels such a character has the level of that frame unless
\* it is in a run that L1 resets to the paragraph level.
C24_OverrideGivesClassAndLevel ==
  /\ [][pc = "explicit" /\ pc' # "threw" =>
          /\ (charTypes[cpIdx] \notin UNOVERRIDDEN_TYPES
                /\ frameOf(State)._override # "none") =>
                  /\ charTypes'[cpIdx] = frameOf(State)._override
                  /\ embedLevels'[cpIdx] = frameOf(State)._level
          /\ charTypes[cpIdx] = "BN" => charTypes'[cpIdx] = "BN"]_vars
  /\ [](Returned =>
          \A q \in 1..Len(paragraphs) :
            \A i \in firstCp(paragraphs[q])..lastCp(paragraphs[q]) :
              (/\ originalClass(i) \notin UNOVERRIDDEN_TYPES
               /\ frameAt(q, i)._override # "none"
               /\ ~ trailsTo(i, lastCp(paragraphs[q])))
                => embedLevels[i] = frameAt(q, i)._level)

\* A call with base direction rtl has returned level 2 for an RLI, its PDI and
\* a Hebrew letter that follow an LRO, the three with class L.
C24_Witness ==
  /\ Returned
  /\ baseDirection = "rtl"
  /\ string = <<8237, 8295, 8297, 1488>>
  /\ frameAt(1, 1)._override = "L"
  /\ frameAt(1, 2) = [_level |-> 2, _override |-> "L", _isolate |-> FALSE,
                      _isolInitIndex |-> -1]
  /\ \A i \in 1..3 : charTypes[i] = "L" /\ embedLevels[i] = 2

\* The index list of the isolating run sequence being resolved.
currentSeqIndices == seqOf(State)._seqIndices

\* The class of the nearest strong character (L, R, AL) before place k of the
\* sequence being resolved, its sos class when there is none.
nearestStrongBefore(k) ==
  LET strongs == {j \in 1..(k - 1) : charTypes[currentSeqIndices[j]] \in STRONG_TYPES}
  IN IF strongs = {} THEN seqOf(State)._sosType
     ELSE charTypes[currentSeqIndices[CHOOSE j \in strongs : \A m \in strongs : m <= j]]

\* The step rewrites the EN of the sequence whose nearest preceding strong
\* class is strong to class to, and no other EN of the string.
rewritesEN(strong, to) ==
  /\ \A k \in 1..Len(currentSeqIndices) :
       charTypes[currentSeqIndices[k]] = "EN" =>
         charTypes'[currentSeqIndices[k]] =
           IF nearestStrongBefore(k) = strong THEN to ELSE "EN"
  /\ \A i \in CodePointIndices :
       (charTypes[i] # "EN" \/ \A k \in 1..Len(currentSeqIndices) : currentSeqIndices[k] # i)
         => charTypes'[i] = charTypes[i]

\* C25: W2 rewrites to AN exactly the EN of the sequence whose nearest
\* preceding strong class in the sequence, sos when there is none, is AL; W7
\* rewrites to L exactly the EN whose nearest preceding strong class is L;
\* W3-W6 rewrite no EN; and W2 and W7 change no other class, in the sequence or
\* outside it.
C25_EuropeanNumbers ==
  [][/\ pc = "W2" => rewritesEN("AL", "AN")
     /\ pc = "W7" => rewritesEN("L", "L")
     /\ pc \in {"W3", "W4", "W5", "W6"} =>
          \A i \in CodePointIndices : charTypes[i] = "EN" => charTypes'[i] = "EN"]_vars

\* In the call on alef-with-madda, "1", "A", "1" W2 has made the first digit AN
\* and W7 the second digit L.
C25_Witness ==
  /\ pc = "N0"
  /\ string = <<1575, 49, 65, 49>>
  /\ Len(currentSeqIndices) = 4
  /\ charTypes[1] = "AN"
  /\ charTypes[3] = "L"

\* N0 is about to resolve the bracket pairs of a sequence.
atN0 == pc = "N0" /\ counted(State, NI_KEY)

\* The state of N0 after it has dealt with the first n bracket pairs of the
\* sequence.
afterPairs(n) == resolvePairs(State, SubSeq(bracketPairs(State), 1, n), 1)

\* The direction N0 reads from a class: EN and AN count as R.
directionOf(type) ==
  IF type \in {"R", "EN", "AN"} THEN "R" ELSE IF type = "L" THEN "L" ELSE "none"

\* The embedding direction of the sequence being resolved.
sequenceDirection ==
  IF embedLevels[currentSeqIndices[1]] % 2 = 1 THEN "R" ELSE "L"

\* The class N0 has to give pair n of the sequence, read from the classes left
\* by the pairs before it: the embedding direction if the pair encloses a
\* strong character of that direction; else, if it encloses a strong character,
\* the direction of the nearest strong character before the opening bracket
\* (sos when none) if that is the opposite direction and the embedding
\* direction if not; "none" if it encloses no strong character.
directionOfPair(n) ==
  LET pair == bracketPairs(State)[n]
      types == afterPairs(n - 1).charTypes
      dir(si) == directionOf(types[currentSeqIndices[si + 1]])
      enclosed == {dir(si) : si \in (pair[1] + 1)..(pair[2] - 1)} \ {"none"}
      strongs == {si \in 0..(pair[1] - 1) : dir(si) # "none"}
      before == IF strongs = {} THEN seqOf(State)._sosType
                ELSE dir(CHOOSE si \in strongs : \A sj \in strongs : sj <= si)
  IN IF sequenceDirection \in enclosed THEN sequenceDirection
     ELSE IF enclosed = {} THEN "none"
     ELSE IF before # sequenceDirection THEN before ELSE sequenceDirection

\* C26: N0 gives both brackets of a pair the embedding direction if the pair
\* encloses a strong character of that direction; else, if it encloses a strong
\* character, the opposite direction when the nearest strong character before
\* the opening bracket (sos when none) is opposite too, and the embedding
\* direction when it is not; it leaves the brackets of a pair that encloses no
\* strong character as they are. For "(a)" with base direction rtl both
\* brackets are returned at level 1.
C26_BracketPairDirection ==
  /\ [][atN0 =>
          /\ charTypes' = afterPairs(Len(bracketPairs(State))).charTypes
          /\ \A n \in 1..Len(bracketPairs(State)) :
               \A k \in 1..2 :
                 LET i == currentSeqIndices[bracketPairs(State)[n][k] + 1] IN
                 afterPairs(n).charTypes[i] =
                   IF directionOfPair(n) = "none" THEN afterPairs(n - 1).charTypes[i]
                   ELSE directionOfPair(n)]_vars
  /\ [](Returned /\ string = BracketedLetter /\ baseDirection = "rtl" =>
          finalLevels[0] = 1 /\ finalLevels[1] = 2 /\ finalLevels[2] = 1)

\* N0 has set the pair of "A(A)" followed by two NSM, with base direction rtl,
\* to L, the direction opposite to the embedding direction.
C26_Witness ==
  /\ pc = "N1"
  /\ string = BracketThenMarks
  /\ baseDirection = "rtl"
  /\ sequenceDirection = "R"
  /\ charTypes[1] = "L"
  /\ charTypes[3] = "L"


\* The places of the sequence being resolved that hold the run of original
\* NSM that immediately follows place k, BN-like characters skipped.
marksAfter(k) ==
  {m \in (k + 1)..Len(currentSeqIndices) :
     /\ originalClass(currentSeqIndices[m]) = "NSM"
     /\ \A j \in (k + 1)..(m - 1) :
          originalClass(currentSeqIndices[j]) \in {"NSM"} \cup BN_LIKE_TYPES}

\* The first character after place k that is not BN-like, if it is an original
\* NSM.
firstMarkAfter(k) ==
  {m \in marksAfter(k) :
     \A j \in (k + 1)..(m - 1) : originalClass(currentSeqIndices[j]) \in BN_LIKE_TYPES}

\* The pair n of the sequence is set by N0, and every place of marks(k), k the
\* place of one of its brackets, has the class of the bracket after N0.
marksFollowBracket(n, marks(_)) ==
  \A b \in 1..2 :
    LET k == bracketPairs(State)[n][b] + 1 IN
    \A m \in marks(k) :
      charTypes'[currentSeqIndices[m]] = charTypes'[currentSeqIndices[k]]

\* C27: after N0 has set a bracket pair to L or R, every character of the run
\* of original NSM that immediately follows the opening or the closing bracket
\* (BN-like characters skipped) has the class of the bracket, whether that is
\* the embedding direction or not and however long the run.
C27_MarksFollowBracket ==
  [][atN0 =>
       \A n \in 1..Len(bracketPairs(State)) :
         directionOfPair(n) # "none" => marksFollowBracket(n, marksAfter)]_vars

\* C27 as the code has it: after N0 has set a bracket pair to the direction
\* opposite to the embedding direction, the first character that is not
\* BN-like after each bracket has the class of the bracket if its original
\* class is NSM.
C27_FirstMarkFollowsOppositeBracket ==
  [][atN0 =>
       \A n \in 1..Len(bracketPairs(State)) :
         directionOfPair(n) \notin {"none", sequenceDirection}
           => marksFollowBracket(n, firstMarkAfter)]_vars


\* The opener stack and the pairs of BD16 when its loop over the sequence
\* being resolved reaches place si (0-based), or has been left before.
loopBefore(si) ==
  bracketPairsLoop(
    [State EXCEPT !.isolatingRunSeqs[seqIdx + 1]._seqIndices = SubSeq(@, 1, si)],
    0, [_openerStack |-> << >>, _pairs |-> << >>, _break |-> FALSE])

\* The opening and closing brackets of the tables that pair with each other,
\* canonical equivalents included.
pairedBrackets ==
  {<<40, 41>>, <<91, 93>>, <<9001, 9002>>, <<12296, 12297>>,
   <<9001, 12297>>, <<12296, 9002>>}

\* The character at place si (0-based) of the sequence being resolved.
charAtPlace(si) == codePointAt0(codePoints[currentSeqIndices[si + 1]])

\* The places (0-based) of the sequence at which the loop of BD16 meets an
\* opening bracket of neutral class while the stack holds MAX_OPENERS.
fullStackPlaces ==
  {si \in 0..(Len(currentSeqIndices) - 1) :
     /\ charTypes[currentSeqIndices[si + 1]] \in NEUTRAL_ISOLATE_TYPES
     /\ \E pb \in pairedBrackets : pb[1] = charAtPlace(si)
     /\ ~ loopBefore(si)._break
     /\ Len(loopBefore(si)._openerStack) = MAX_OPENERS}

\* C28: the bracket pairs that N0 identifies in a sequence are well formed: the
\* opener is before the closer, both still have a neutral class and pair with
\* each other, no bracket is in two pairs, two pairs are disjoint or nested,
\* and the list is in increasing order of the opener; the opener stack never
\* holds more than MAX_OPENERS entries; and when an opening bracket is met at a
\* full stack, the pairs are those found before it.
C28_BracketPairsWellFormed ==
  atN0 =>
    LET pairs == bracketPairs(State) IN
    /\ \A n \in 1..Len(pairs) :
         /\ pairs[n][1] < pairs[n][2]
         /\ <<charAtPlace(pairs[n][1]), charAtPlace(pairs[n][2])>> \in pairedBrackets
         /\ \A b \in 1..2 :
              charTypes[currentSeqIndices[pairs[n][b] + 1]] \in NEUTRAL_ISOLATE_TYPES
    /\ \A n, m \in 1..Len(pairs) :
         n < m =>
           /\ pairs[n][1] < pairs[m][1]
           /\ {pairs[n][1], pairs[n][2]} \cap {pairs[m][1], pairs[m][2]} = {}
           /\ pairs[m][1] > pairs[n][2] \/ pairs[m][2] < pairs[n][2]
    /\ \A si \in 0..Len(currentSeqIndices) :
         Len(loopBefore(si)._openerStack) <= MAX_OPENERS
    /\ \A si \in fullStackPlaces :
         /\ \A n \in 1..Len(pairs) : pairs[n][2] < si
         /\ {pairs[n] : n \in 1..Len(pairs)}
              = {loopBefore(si)._pairs[n] : n \in 1..Len(loopBefore(si)._pairs)}

\* N0 is at "()" followed by 64 "(" and a ")": the 64th "(" is met at a full
\* stack, and the only pair is the first one.
C28_Witness ==
  /\ atN0
  /\ string = <<40, 41>> \o repeat(40, MAX_OPENERS) \o <<40, 41>>
  /\ fullStackPlaces = {MAX_OPENERS + 2}
  /\ bracketPairs(State) = << <<0, 1>> >>


\* The state of the call on the string in the state when the last loop of
\* paragraph p is about to resolve the implicit level of code point i.
RECURSIVE stateAtImplicit(_, _, _, _)
stateAtImplicit(s, p, i, fuel) ==
  IF fuel = 0 \/ (s.pc = "implicit" /\ s.paraIdx = p /\ s.cpIdx = i) THEN s
  ELSE stateAtImplicit(Step(s), p, i, fuel - 1)

\* The explicit level and the resolved class of code point i of paragraph q,
\* as I1-I2 read them.
resolvedAt(q, i) ==
  LET s == stateAtImplicit(Entry(string, baseDirection), q - 1, i, stepBound(string))
  IN [level |-> s.embedLevels[i], type |-> s.charTypes[i]]

\* What I1 and I2 add to the explicit level e of a character of the class.
raiseOf(e, type) ==
  CASE e % 2 = 0 /\ type = "R" -> 1
    [] e % 2 = 0 /\ type \in {"AN", "EN"} -> 2
    [] e % 2 = 1 /\ type \in {"L", "EN", "AN"} -> 1
    [] OTHER -> 0

\* C29: in the returned levels a code point whose resolved class is not
\* BN-like and that L1 does not reset has its explicit level e plus 1 if e is
\* even and the class R, plus 2 if e is even and the class AN or EN, plus 1 if e
\* is odd and the class L, EN or AN, and e otherwise; so its level is odd if the
\* class is R and even if the class is L, EN or AN.
C29_ImplicitLevels ==
  Returned =>
    \A q \in 1..Len(paragraphs) :
      \A i \in firstCp(paragraphs[q])..lastCp(paragraphs[q]) :
        LET r == resolvedAt(q, i) IN
        (r.type \notin BN_LIKE_TYPES /\ ~ trailsTo(i, lastCp(paragraphs[q]))) =>
          /\ embedLevels[i] = r.level + raiseOf(r.level, r.type)
          /\ r.type = "R" => embedLevels[i] % 2 = 1
          /\ r.type \in {"L", "EN", "AN"} => embedLevels[i] % 2 = 0

\* A call with base direction ltr on "1" after alef-with-madda inside an RLI has
\* returned the AN at level 2 and the R at level 1, both from explicit level 1.
C29_Witness ==
  /\ Returned
  /\ baseDirection = "ltr"
  /\ string = <<8295, 1575, 49>>
  /\ resolvedAt(1, 1) = [level |-> 1, type |-> "R"]
  /\ resolvedAt(1, 2) = [level |-> 1, type |-> "AN"]
  /\ embedLevels[1] = 1
  /\ embedLevels[2] = 2


\* The code points of the paragraph being resolved whose class is in types.
withClassIn(types) == {i \in paragraphCodePoints : charTypes[i] \in types}

\* The entry of charTypeCounts under key holds the number of code points of
\* the paragraph whose class is in types: that number, never negative and never
\* NaN, or no entry when there is none.
countsExactly(key, types) ==
  \/ charTypeCounts[key] = Num(Cardinality(withClassIn(types)))
  \/ charTypeCounts[key] = Undefined /\ withClassIn(types) = {}

\* The pass that the call is about to guard by charTypeCounts is skipped.
passSkipped ==
  CASE pc = "W1" -> ~ counted(State, "NSM")
    [] pc \in {"W2", "W5", "W7"} -> ~ counted(State, "EN")
    [] pc = "W3" -> ~ counted(State, "AL")
    [] pc = "W4" -> ~ (counted(State, "ES") \/ counted(State, "CS"))
    [] pc = "W6" ->
         ~ (counted(State, "ET") \/ counted(State, "ES") \/ counted(State, "CS"))
    [] pc = "N0" -> ~ counted(State, NI_KEY)
    [] OTHER -> FALSE

\* The classes that the pass about to be guarded leaves when it is run.
classesAfterPass ==
  CASE pc = "W1" -> w1Loop(State, 0).charTypes
    [] pc = "W2" -> w2Loop(State, 0).charTypes
    [] pc = "W3" -> w3Loop(State, 0).charTypes
    [] pc = "W4" -> w4Loop(State, 1).charTypes
    [] pc = "W5" -> w5Loop(State, 0).charTypes
    [] pc = "W6" -> w6Loop(State, 0).charTypes
    [] pc = "W7" -> w7Loop(State, 0, seqOf(State)._sosType).charTypes
    [] pc = "N0" -> n1Loop(resolvePairs(State, bracketPairs(State), 1), 0).charTypes
    [] OTHER -> charTypes

\* C30: whenever a weak or neutral pass is about to be guarded, charTypeCounts
\* holds for every class the number of code points of the paragraph that have
\* that class, and under NEUTRAL_ISOLATE_TYPES the number of those whose class
\* is in that union, no count being negative or NaN; and a pass that is skipped
\* would change no class if it were run.
C30_HistogramAccurate ==
  (pc \in {"W1", "W2", "W3", "W4", "W5", "W6", "W7", "N0"}) =>
    /\ \A t \in TYPES : countsExactly(t, {t})
    /\ countsExactly(NI_KEY, NEUTRAL_ISOLATE_TYPES)
    /\ passSkipped => classesAfterPass = charTypes

\* In the call on alef-with-madda and "1" W2 has made the digit AN, the count
\* of EN is 0 and that of AN is 1, and W5 is about to be skipped.
C30_Witness ==
  /\ pc = "W5"
  /\ string = <<1575, 49>>
  /\ passSkipped
  /\ charTypeCounts["EN"] = Num(0)
  /\ charTypeCounts["AN"] = Num(1)
  /\ charTypeCounts["R"] = Num(1)
  /\ charTypeCounts["NSM"] = Undefined

====
